---- MODULE Spec2Model ----
(***************************************************************************)
(* The user-account and credential lifecycle of projectCatalog: the class  *)
(* UserManagment (registration, authentication, e-mail verification,       *)
(* password and e-mail change, profile picture rotation, account deletion) *)
(* over the Users table, the token store, the object store, the mail       *)
(* sender and the article tables.                                          *)
(*                                                                         *)
(* Every request is served by a request slot p.  A handler is an async     *)
(* function: it runs without interruption up to the completion of each     *)
(* awaited call on a shared store, and other requests run between two      *)
(* awaited calls.  One action of the model is one such stretch.            *)
(***************************************************************************)
EXTENDS Integers, Sequences, FiniteSets, TLC

VARIABLES
    users,      \* table Users: Username -> row (a row is a function field -> value)
    tokens,     \* token store: code -> token
    mails,      \* mails delivered by the mail sender
    objects,    \* image ids present in the object store
    articles,   \* article id -> [Author, Table, AuthorProfilePic]
    now,        \* the clock, unix seconds (Helper.getUNIXTimestamp, Date.now()/1000)
    nextCode,   \* the next value randomBytesHex(24) produces (a fresh code)
    nextImage,  \* the next value uuidv4() produces (a fresh image id)
    req         \* request slot -> the request it serves and where it stands, or
                \* the response its handler has just returned

vars == <<users, tokens, mails, objects, articles, now, nextCode, nextImage, req>>

---------------------------------------------------------------------------
(* Bounds of the model *)

MaxProcs == 2
MaxCodes == 3
MaxImages == 2

Procs == 1..MaxProcs
Codes == 1..MaxCodes
ImageIds == 1..MaxImages

Usernames == {"alice"}
Salts == {"s1"}

\* e-mail addresses are sequences of characters
EmailGood == <<"a", "@", "x", ".", "c">>
EmailNoTld == <<"a", "@", "x">>
EmailNew == <<"n", "@", "y", ".", "c">>
RegisterEmails == {EmailGood, EmailNoTld}
NewEmails == {EmailNew}

PwShort == "pass"
Pw1 == "password1"
Pw2 == "password2"
RegisterPasswords == {PwShort, Pw1}
LoginPasswords == {Pw1, Pw2}
NewPasswords == {PwShort, Pw2}
\* the 16 hex characters randomBytesHex(8) appends to the username
ResetSuffixes == {"00a1b2c3d4e5f607"}

CanPostChoices == {"true"}
AdminChoices == {"false"}

---------------------------------------------------------------------------
(* Program constants *)

profilePicCooldown == 7 * 24 * 60 * 60
emailChangeCooldown == 3 * 60 * 60
passwordResetCooldown == 60 * 15
tokenLifetime == 6 * 3600
accessLifetime == 30 * 60
refreshLifetime == 3 * 24 * 60 * 60

\* the instants the clock takes: each cooldown and each token lifetime has
\* an instant before, at and after its end, counted from instants 0 and
\* passwordResetCooldown and emailChangeCooldown
Instants ==
    { 0,
      passwordResetCooldown,
      emailChangeCooldown,
      emailChangeCooldown + tokenLifetime,
      emailChangeCooldown + tokenLifetime + 1,
      profilePicCooldown,
      profilePicCooldown + passwordResetCooldown }

\* the instants of the clock while requests are served concurrently: before
\* the e-mail change cooldown ends, at its end, and after the lifetime of a
\* token made at its end
FewInstants ==
    { 0,
      emailChangeCooldown,
      emailChangeCooldown + tokenLifetime + 1 }

\* the instants of the clock for the profile picture: before the cooldown
\* ends, at its end, and at the end of the cooldown of a change made then
PicInstants ==
    { 0,
      profilePicCooldown - 1,
      profilePicCooldown,
      profilePicCooldown + profilePicCooldown }

---------------------------------------------------------------------------
(* Values *)

Null == [null |-> TRUE]
NoPayload == [none |-> TRUE]
Idle == [op |-> "none", pc |-> "idle"]

\* a picture link is .../images/<name>.<ext>; the name of a stored image is
\* the uuid it was saved under, the name of the default picture is pfp
DefaultProfilePic == [dir |-> "images", name |-> [word |-> "pfp"], ext |-> "png"]
ImageUrl(imageId) == [dir |-> "images", name |-> [uuid |-> imageId], ext |-> "png"]

\* outcomes of a call on a collaborator: TRUE it succeeds, FALSE it faults
Reliable == {TRUE}
Unreliable == {TRUE, FALSE}

NoWsAt(s) == \A i \in 1..Len(s) : s[i] \notin {" ", "@"}

isValidEmail(email) ==
    \E i \in 1..Len(email), j \in 1..Len(email) :
        /\ email[i] = "@"
        /\ email[j] = "."
        /\ 1 < i
        /\ i + 1 < j
        /\ j < Len(email)
        /\ NoWsAt(SubSeq(email, 1, i - 1))
        /\ NoWsAt(SubSeq(email, i + 1, j - 1))
        /\ NoWsAt(SubSeq(email, j + 1, Len(email)))

genPassHash(password, salt) == [pw |-> password, salt |-> salt]

\* bcrypt.compare rejects when the hash is not a string
compareThrows(user) == "Password" \notin DOMAIN user
compareHash(password, hash) == hash.pw = password

Without(user, fields) == [f \in DOMAIN user \ fields |-> user[f]]

getAccessJWT(user) ==
    [kind |-> "access", payload |-> user, iat |-> now, exp |-> now + accessLifetime]

getRefreshJWT(user) ==
    [kind |-> "refresh", payload |-> user, iat |-> now, exp |-> now + refreshLifetime]

decodeJWT(token) ==
    [f \in DOMAIN token.payload \cup {"iat", "exp"} |->
        IF f = "iat" THEN token.iat
        ELSE IF f = "exp" THEN token.exp
        ELSE token.payload[f]]

getUser(username) ==
    IF username \in DOMAIN users THEN users[username] ELSE Null

\* getUser catches a fault of the table and answers null
getUserResults(oks, username) ==
    { IF ok THEN getUser(username) ELSE Null : ok \in oks }

Put(f, k, v) == [x \in DOMAIN f \cup {k} |-> IF x = k THEN v ELSE f[x]]
Remove(f, k) == [x \in DOMAIN f \ {k} |-> f[x]]

allowedFields ==
    { "Email", "Password", "ProfilePic", "ProfilePicChange", "CanPost", "Admin",
      "Liked", "Verified", "LastPasswordChange", "LastEmailChange" }

\* updateUser: the status it answers
updateUserStatus(ok, username, fieldName) ==
    IF fieldName \notin allowedFields THEN 400
    ELSE IF ~ok THEN 500
    ELSE IF username \notin DOMAIN users THEN 404
    ELSE 200

\* updateUser writing a row of the key and the field in place of the row
updateUserTableWholeRow(ok, username, fieldName, fieldValue) ==
    IF fieldName \notin allowedFields \/ ~ok THEN users
    ELSE Put(users, username, [Username |-> username] @@ Put(<<>>, fieldName, fieldValue))

\* updateUser: the table after it.  UpdateItem with SET edits the row of
\* the key, and adds a row holding the key and the field when there is none
updateUserTable(ok, username, fieldName, fieldValue) ==
    IF fieldName \notin allowedFields \/ ~ok THEN users
    ELSE IF username \in DOMAIN users
         THEN Put(users, username, Put(users[username], fieldName, fieldValue))
         ELSE Put(users, username, [Username |-> username] @@ Put(<<>>, fieldName, fieldValue))

updateUserMessage(status) ==
    CASE status = 400 -> "Disallowed field"
      [] status = 500 -> "Internal server error"
      [] status = 404 -> "User not found"
      [] OTHER -> "Item updated successfully"

---------------------------------------------------------------------------
(* Requests *)

\* the route sends what the handler returned in the stretch of the return:
\* nothing else runs before it, and the slot is free again
Sending == \E p \in Procs : req[p].pc = "done"

InFlight == { p \in Procs : req[p].pc \notin {"idle", "done"} }

\* a request is admitted to the lowest free slot, while fewer than limit
\* requests are being served
CanStart(p, limit) ==
    /\ ~Sending
    /\ req[p] = Idle
    /\ \A q \in Procs : q < p => req[q] # Idle
    /\ Cardinality(InFlight) < limit

Response(op, status, message, username, code, payload) ==
    [op |-> op, pc |-> "done", status |-> status, message |-> message,
     username |-> username, code |-> code, payload |-> payload]

\* the handler returns r
Respond(p, r) == req' = [req EXCEPT ![p] = r]

\* the handler goes on from its next awaited call, with locals r
Continue(p, r) == req' = [req EXCEPT ![p] = r]

Goto(p, pc) == req' = [req EXCEPT ![p].pc = pc]

Returned(p, op) == req[p].op = op /\ req[p].pc = "done"

At(p, op, pc) == ~Sending /\ req[p].op = op /\ req[p].pc = pc

Deliver(p) ==
    /\ req[p].pc = "done"
    /\ req' = [req EXCEPT ![p] = Idle]
    /\ UNCHANGED <<users, tokens, mails, objects, articles, now, nextCode, nextImage>>


---------------------------------------------------------------------------
(* updateUser called for a request *)

\* the values updateUser is called with: the field, typeof the value, the value
UpdateInputs ==
    { <<"Email", "string", EmailNew>>,
      <<"Email", "string", EmailNoTld>>,
      <<"Verified", "string", "true">>,
      <<"CanPost", "string", "false">>,
      <<"Liked", "object", [articleId |-> "a1"]>>,
      <<"Username", "string", "bob">>,
      <<"AccountCreated", "number", 1>> }

\* the types updateUser has a DynamoDB attribute for (arrays and null too)
supportedTypes == {"string", "number", "boolean"}

updateUser(p, limit, username, fieldName, type, fieldValue) ==
    /\ CanStart(p, limit)
    /\ IF fieldName \notin allowedFields
       THEN Respond(p, Response("updateUser", 400, "Disallowed field", username, 0,
                                [fieldName |-> fieldName, fieldValue |-> fieldValue]))
       ELSE IF type \notin supportedTypes
       THEN Respond(p, Response("updateUser", 400, "Unsupported data type", username, 0,
                                [fieldName |-> fieldName, fieldValue |-> fieldValue]))
       ELSE Continue(p, [op |-> "updateUser", pc |-> "send", username |-> username,
                         fieldName |-> fieldName, fieldValue |-> fieldValue])
    /\ UNCHANGED <<users, tokens, mails, objects, articles, now, nextCode, nextImage>>

updateUserSend(p, oks) ==
    /\ At(p, "updateUser", "send")
    /\ \E ok \in oks :
        LET status == updateUserStatus(ok, req[p].username, req[p].fieldName)
        IN /\ users' = updateUserTable(ok, req[p].username, req[p].fieldName,
                                       req[p].fieldValue)
           /\ Respond(p, Response("updateUser", status, updateUserMessage(status),
                                  req[p].username, 0,
                                  [fieldName |-> req[p].fieldName,
                                   fieldValue |-> req[p].fieldValue]))
    /\ UNCHANGED <<tokens, mails, objects, articles, now, nextCode, nextImage>>

---------------------------------------------------------------------------
(* createUser *)

\* userObject with the account verified from the start
userObjectVerified(username, hash, email, canPost, admin) ==
    [ Username |-> username,
      Password |-> hash,
      Email |-> email,
      Admin |-> admin,
      Liked |-> <<>>,
      CanPost |-> canPost,
      ProfilePic |-> DefaultProfilePic,
      ProfilePicChange |-> [str |-> "null"],
      AccountCreated |-> now,
      Verified |-> "true",
      LastPasswordChange |-> now,
      LastEmailChange |-> now ]

userObject(username, hash, email, canPost, admin) ==
    [ Username |-> username,
      Password |-> hash,
      Email |-> email,
      Admin |-> admin,
      Liked |-> <<>>,
      CanPost |-> canPost,
      ProfilePic |-> DefaultProfilePic,
      ProfilePicChange |-> [str |-> "null"],
      AccountCreated |-> now,
      Verified |-> "false",
      LastPasswordChange |-> now,
      LastEmailChange |-> now ]

\* createUser without the look-up of the username
createUserNoLookup(p, limit, oks, username, password, email, canPost, admin) ==
    /\ CanStart(p, limit)
    /\ IF ~isValidEmail(email)
       THEN /\ Respond(p, Response("createUser", 400, "invalid email address",
                                   username, 0, NoPayload))
            /\ UNCHANGED nextCode
       ELSE IF Len(password) < 8
       THEN /\ Respond(p, Response("createUser", 400,
                                   "password must be at least 8 characters long",
                                   username, 0, NoPayload))
            /\ UNCHANGED nextCode
       ELSE /\ nextCode \in Codes
            /\ Continue(p, [op |-> "createUser", pc |-> "put", username |-> username,
                           password |-> password, email |-> email,
                           canPost |-> canPost, admin |-> admin, code |-> nextCode])
            /\ nextCode' = nextCode + 1
    /\ UNCHANGED <<users, tokens, mails, objects, articles, now, nextImage>>

createUser(p, limit, oks, username, password, email, canPost, admin) ==
    /\ CanStart(p, limit)
    /\ \E found \in getUserResults(oks, username) :
        IF ~isValidEmail(email)
        THEN /\ Respond(p, Response("createUser", 400, "invalid email address",
                                    username, 0, NoPayload))
             /\ UNCHANGED nextCode
        ELSE IF Len(password) < 8
        THEN /\ Respond(p, Response("createUser", 400,
                                    "password must be at least 8 characters long",
                                    username, 0, NoPayload))
             /\ UNCHANGED nextCode
        ELSE IF found # Null
        THEN /\ Respond(p, Response("createUser", 400, "username is already in use",
                                    username, 0, NoPayload))
             /\ UNCHANGED nextCode
        ELSE /\ nextCode \in Codes
             /\ Continue(p, [op |-> "createUser", pc |-> "put", username |-> username,
                            password |-> password, email |-> email,
                            canPost |-> canPost, admin |-> admin, code |-> nextCode])
             /\ nextCode' = nextCode + 1
    /\ UNCHANGED <<users, tokens, mails, objects, articles, now, nextImage>>

createUserPut(p, oks) ==
    /\ At(p, "createUser", "put")
    /\ \E ok \in oks, salt \in Salts :
        IF ok
        THEN /\ users' = Put(users, req[p].username,
                             userObject(req[p].username,
                                        genPassHash(req[p].password, salt),
                                        req[p].email, req[p].canPost, req[p].admin))
             /\ Goto(p, "token")
        ELSE /\ Respond(p, Response("createUser", 500, "server error",
                                    req[p].username, req[p].code, NoPayload))
             /\ UNCHANGED users
    /\ UNCHANGED <<tokens, mails, objects, articles, now, nextCode, nextImage>>

createToken(token) == Put(tokens, token.value, token)

createUserToken(p, oks) ==
    /\ At(p, "createUser", "token")
    /\ \E ok \in oks :
        IF ok
        THEN /\ tokens' = createToken([username |-> req[p].username,
                                       value |-> req[p].code,
                                       type |-> "email_verification",
                                       expiration |-> 0])
             /\ Goto(p, "mail")
        ELSE /\ Respond(p, Response("createUser", 500, "server error",
                                    req[p].username, req[p].code, NoPayload))
             /\ UNCHANGED tokens
    /\ UNCHANGED <<users, mails, objects, articles, now, nextCode, nextImage>>

sendMail(ok, mail) == IF ok THEN mails \cup {mail} ELSE mails

createUserMail(p, oks) ==
    /\ At(p, "createUser", "mail")
    /\ \E ok \in oks :
        mails' = sendMail(ok, [kind |-> "account_verification", to |-> req[p].email,
                               username |-> req[p].username, code |-> req[p].code])
    /\ Respond(p, Response("createUser", 200, "user created successfully",
                           req[p].username, req[p].code, NoPayload))
    /\ UNCHANGED <<users, tokens, objects, articles, now, nextCode, nextImage>>

---------------------------------------------------------------------------
(* verifyUser *)

\* verifyUser turning away a user who is not verified
verifyUserVerifiedOnly(p, limit, oks, username, password) ==
    /\ CanStart(p, limit)
    /\ \E user \in getUserResults(oks, username) :
        IF user = Null
        THEN Respond(p, Response("verifyUser", 401, "invalid login credentials",
                                 username, 0, NoPayload))
        ELSE IF compareThrows(user)
        THEN Respond(p, Response("verifyUser", 0, "uncaught exception",
                                 username, 0, NoPayload))
        ELSE IF ~compareHash(password, user.Password)
        THEN Respond(p, Response("verifyUser", 401, "invalid login credentials",
                                 username, 0, NoPayload))
        ELSE IF ~("Verified" \in DOMAIN user /\ user.Verified = "true")
        THEN Respond(p, Response("verifyUser", 403, "account not verified",
                                 username, 0, NoPayload))
        ELSE LET claims == Without(user, {"Password", "Liked", "VerificationCode"})
                 token == getAccessJWT(claims)
             IN Respond(p, Response("verifyUser", 200, "", username, 0,
                                    [accessToken |-> token,
                                     refreshToken |-> getRefreshJWT(claims),
                                     user |-> decodeJWT(token)]))
    /\ UNCHANGED <<users, tokens, mails, objects, articles, now, nextCode, nextImage>>

\* verifyUser telling an unknown username from a wrong password
verifyUserTellsAbsent(p, limit, oks, username, password) ==
    /\ CanStart(p, limit)
    /\ \E user \in getUserResults(oks, username) :
        IF user = Null
        THEN Respond(p, Response("verifyUser", 404, "user not found",
                                 username, 0, NoPayload))
        ELSE IF compareThrows(user)
        THEN Respond(p, Response("verifyUser", 0, "uncaught exception",
                                 username, 0, NoPayload))
        ELSE IF ~compareHash(password, user.Password)
        THEN Respond(p, Response("verifyUser", 401, "invalid login credentials",
                                 username, 0, NoPayload))
        ELSE LET claims == Without(user, {"Password", "Liked", "VerificationCode"})
                 token == getAccessJWT(claims)
             IN Respond(p, Response("verifyUser", 200, "", username, 0,
                                    [accessToken |-> token,
                                     refreshToken |-> getRefreshJWT(claims),
                                     user |-> decodeJWT(token)]))
    /\ UNCHANGED <<users, tokens, mails, objects, articles, now, nextCode, nextImage>>

verifyUser(p, limit, oks, username, password) ==
    /\ CanStart(p, limit)
    /\ \E user \in getUserResults(oks, username) :
        IF user = Null
        THEN Respond(p, Response("verifyUser", 401, "invalid login credentials",
                                 username, 0, NoPayload))
        ELSE IF compareThrows(user)
        THEN Respond(p, Response("verifyUser", 0, "uncaught exception",
                                 username, 0, NoPayload))
        ELSE IF ~compareHash(password, user.Password)
        THEN Respond(p, Response("verifyUser", 401, "invalid login credentials",
                                 username, 0, NoPayload))
        ELSE LET claims == Without(user, {"Password", "Liked", "VerificationCode"})
                 token == getAccessJWT(claims)
             IN Respond(p, Response("verifyUser", 200, "", username, 0,
                                    [accessToken |-> token,
                                     refreshToken |-> getRefreshJWT(claims),
                                     user |-> decodeJWT(token)]))
    /\ UNCHANGED <<users, tokens, mails, objects, articles, now, nextCode, nextImage>>

---------------------------------------------------------------------------
(* changePassword *)

changePassword(p, limit, oks, username, oldPassword, newPassword) ==
    /\ CanStart(p, limit)
    /\ \E user \in getUserResults(oks, username), salt \in Salts :
        IF user = Null
        THEN Respond(p, Response("changePassword", 404, "User not found.",
                                 username, 0, NoPayload))
        ELSE IF compareThrows(user)
        THEN Respond(p, Response("changePassword", 0, "uncaught exception",
                                 username, 0, NoPayload))
        ELSE IF ~compareHash(oldPassword, user.Password)
        THEN Respond(p, Response("changePassword", 401, "The old password is invalid.",
                                 username, 0, NoPayload))
        ELSE IF Len(newPassword) < 8
        THEN Respond(p, Response("changePassword", 400,
                                 "New password must be at least 8 characters long.",
                                 username, 0, NoPayload))
        ELSE Continue(p, [op |-> "changePassword", pc |-> "password", username |-> username,
                         oldPassword |-> oldPassword,
                         hash |-> genPassHash(newPassword, salt)])
    /\ UNCHANGED <<users, tokens, mails, objects, articles, now, nextCode, nextImage>>

changePasswordPassword(p, oks) ==
    /\ At(p, "changePassword", "password")
    /\ \E ok \in oks :
        LET status == updateUserStatus(ok, req[p].username, "Password")
        IN /\ users' = updateUserTable(ok, req[p].username, "Password", req[p].hash)
           /\ IF status # 200
              THEN Respond(p, Response("changePassword", status, updateUserMessage(status),
                                       req[p].username, 0, NoPayload))
              ELSE Goto(p, "stamp")
    /\ UNCHANGED <<tokens, mails, objects, articles, now, nextCode, nextImage>>

changePasswordStamp(p, oks) ==
    /\ At(p, "changePassword", "stamp")
    /\ \E ok \in oks :
        LET status == updateUserStatus(ok, req[p].username, "LastPasswordChange")
        IN /\ users' = updateUserTable(ok, req[p].username, "LastPasswordChange", now)
           /\ IF status # 200
              THEN Respond(p, Response("changePassword", status, updateUserMessage(status),
                                       req[p].username, 0, NoPayload))
              ELSE Respond(p, Response("changePassword", 200,
                                       "Password changed successfully.",
                                       req[p].username, 0, NoPayload))
    /\ UNCHANGED <<tokens, mails, objects, articles, now, nextCode, nextImage>>

---------------------------------------------------------------------------
(* The token store *)

getToken(code) == IF code \in DOMAIN tokens THEN tokens[code] ELSE Null

deleteToken(code) == Remove(tokens, code)

deleteUserTokens(username) ==
    [c \in { d \in DOMAIN tokens : tokens[d].username # username } |-> tokens[c]]

---------------------------------------------------------------------------
(* verifyEmail *)

\* verifyEmail accepting a token of any type
verifyEmailAnyType(p, limit, oks, verificationCode) ==
    /\ CanStart(p, limit)
    /\ \E ok \in oks :
        LET token == getToken(verificationCode)
        IN IF ~ok
           THEN Respond(p, Response("verifyEmail", 500, "server error",
                                    "", verificationCode, NoPayload))
           ELSE IF token # Null
           THEN Continue(p, [op |-> "verifyEmail", pc |-> "user",
                            username |-> token.username, code |-> verificationCode])
           ELSE Respond(p, Response("verifyEmail", 404,
                                    "invalid or expired verification code",
                                    "", verificationCode, NoPayload))
    /\ UNCHANGED <<users, tokens, mails, objects, articles, now, nextCode, nextImage>>

verifyEmail(p, limit, oks, verificationCode) ==
    /\ CanStart(p, limit)
    /\ \E ok \in oks :
        LET token == getToken(verificationCode)
        IN IF ~ok
           THEN Respond(p, Response("verifyEmail", 500, "server error",
                                    "", verificationCode, NoPayload))
           ELSE IF token # Null /\ token.type = "email_verification"
           THEN Continue(p, [op |-> "verifyEmail", pc |-> "user",
                            username |-> token.username, code |-> verificationCode])
           ELSE Respond(p, Response("verifyEmail", 404,
                                    "invalid or expired verification code",
                                    "", verificationCode, NoPayload))
    /\ UNCHANGED <<users, tokens, mails, objects, articles, now, nextCode, nextImage>>

verifyEmailUser(p, oks) ==
    /\ At(p, "verifyEmail", "user")
    /\ \E user \in getUserResults(oks, req[p].username) :
        IF user = Null
        THEN Respond(p, Response("verifyEmail", 404, "user not found",
                                 req[p].username, req[p].code, NoPayload))
        ELSE IF "Verified" \in DOMAIN user /\ user.Verified = "false"
        THEN Goto(p, "update")
        ELSE Respond(p, Response("verifyEmail", 410, "account already verified",
                                 req[p].username, req[p].code, NoPayload))
    /\ UNCHANGED <<users, tokens, mails, objects, articles, now, nextCode, nextImage>>

verifyEmailUpdate(p, oks) ==
    /\ At(p, "verifyEmail", "update")
    /\ \E ok \in oks :
        /\ users' = updateUserTable(ok, req[p].username, "Verified", "true")
        /\ IF updateUserStatus(ok, req[p].username, "Verified") = 200
           THEN Goto(p, "delete")
           ELSE Respond(p, Response("verifyEmail", 500, "server error",
                                    req[p].username, req[p].code, NoPayload))
    /\ UNCHANGED <<tokens, mails, objects, articles, now, nextCode, nextImage>>

\* verifyEmail's last step leaving the token in the store
verifyEmailDeleteKeeps(p, oks) ==
    /\ At(p, "verifyEmail", "delete")
    /\ Respond(p, Response("verifyEmail", 200, "email verified",
                           req[p].username, req[p].code, NoPayload))
    /\ UNCHANGED <<users, tokens, mails, objects, articles, now, nextCode, nextImage>>

verifyEmailDelete(p, oks) ==
    /\ At(p, "verifyEmail", "delete")
    /\ \E ok \in oks :
        IF ok
        THEN /\ tokens' = deleteToken(req[p].code)
             /\ Respond(p, Response("verifyEmail", 200, "email verified",
                                    req[p].username, req[p].code, NoPayload))
        ELSE /\ UNCHANGED tokens
             /\ Respond(p, Response("verifyEmail", 500, "server error",
                                    req[p].username, req[p].code, NoPayload))
    /\ UNCHANGED <<users, mails, objects, articles, now, nextCode, nextImage>>

---------------------------------------------------------------------------
(* verifyEmailChange *)

\* verifyEmailChange without the comparison of the expiration with the clock
verifyEmailChangeNoExpiry(p, limit, oks, token) ==
    /\ CanStart(p, limit)
    /\ \E ok \in oks :
        LET storedToken == getToken(token)
        IN IF ~ok
           THEN Respond(p, Response("verifyEmailChange", 500,
                                    "Server error. Please try again later.",
                                    "", token, NoPayload))
           ELSE IF \/ storedToken = Null
                   \/ storedToken.type # "email_change"
           THEN Respond(p, Response("verifyEmailChange", 410,
                                    "Verification token is invalid or has expired.",
                                    "", token, NoPayload))
           ELSE Continue(p, [op |-> "verifyEmailChange", pc |-> "user",
                            username |-> storedToken.username, code |-> token,
                            newEmail |-> storedToken.newEmail])
    /\ UNCHANGED <<users, tokens, mails, objects, articles, now, nextCode, nextImage>>

verifyEmailChange(p, limit, oks, token) ==
    /\ CanStart(p, limit)
    /\ \E ok \in oks :
        LET storedToken == getToken(token)
        IN IF ~ok
           THEN Respond(p, Response("verifyEmailChange", 500,
                                    "Server error. Please try again later.",
                                    "", token, NoPayload))
           ELSE IF \/ storedToken = Null
                   \/ storedToken.type # "email_change"
                   \/ storedToken.expiration < now
           THEN Respond(p, Response("verifyEmailChange", 410,
                                    "Verification token is invalid or has expired.",
                                    "", token, NoPayload))
           ELSE Continue(p, [op |-> "verifyEmailChange", pc |-> "user",
                            username |-> storedToken.username, code |-> token,
                            newEmail |-> storedToken.newEmail])
    /\ UNCHANGED <<users, tokens, mails, objects, articles, now, nextCode, nextImage>>

verifyEmailChangeUser(p, oks) ==
    /\ At(p, "verifyEmailChange", "user")
    /\ \E user \in getUserResults(oks, req[p].username) :
        IF user = Null
        THEN Respond(p, Response("verifyEmailChange", 404, "User not found.",
                                 req[p].username, req[p].code, NoPayload))
        ELSE Goto(p, "update")
    /\ UNCHANGED <<users, tokens, mails, objects, articles, now, nextCode, nextImage>>

verifyEmailChangeUpdate(p, oks) ==
    /\ At(p, "verifyEmailChange", "update")
    /\ \E ok \in oks :
        LET status == updateUserStatus(ok, req[p].username, "Email")
        IN /\ users' = updateUserTable(ok, req[p].username, "Email", req[p].newEmail)
           /\ IF status # 200
              THEN Respond(p, Response("verifyEmailChange", status,
                                       updateUserMessage(status),
                                       req[p].username, req[p].code, NoPayload))
              ELSE Goto(p, "delete")
    /\ UNCHANGED <<tokens, mails, objects, articles, now, nextCode, nextImage>>

verifyEmailChangeDelete(p, oks) ==
    /\ At(p, "verifyEmailChange", "delete")
    /\ \E ok \in oks :
        IF ok
        THEN /\ tokens' = deleteToken(req[p].code)
             /\ Respond(p, Response("verifyEmailChange", 200,
                                    "Email address successfully updated.",
                                    req[p].username, req[p].code, NoPayload))
        ELSE /\ UNCHANGED tokens
             /\ Respond(p, Response("verifyEmailChange", 500,
                                    "Server error. Please try again later.",
                                    req[p].username, req[p].code, NoPayload))
    /\ UNCHANGED <<users, mails, objects, articles, now, nextCode, nextImage>>

---------------------------------------------------------------------------
(* requestEmailChange *)

\* user.Field + cooldown > currentTime; with the field undefined the sum is
\* NaN and the comparison is false
withinCooldown(user, field, cooldown, currentTime) ==
    field \in DOMAIN user /\ user[field] + cooldown > currentTime

requestEmailChange(p, limit, oks, username, password, newEmail) ==
    /\ CanStart(p, limit)
    /\ \E user \in getUserResults(oks, username) :
        IF user = Null
        THEN /\ Respond(p, Response("requestEmailChange", 404, "User not found.",
                                    username, 0, NoPayload))
             /\ UNCHANGED nextCode
        ELSE IF withinCooldown(user, "LastEmailChange", emailChangeCooldown, now)
        THEN /\ Respond(p, Response("requestEmailChange", 429,
                                    "you have requested an email change recently. Please try again later.",
                                    username, 0, NoPayload))
             /\ UNCHANGED nextCode
        ELSE IF compareThrows(user)
        THEN /\ Respond(p, Response("requestEmailChange", 500,
                                    "Server error. Please try again later.",
                                    username, 0, NoPayload))
             /\ UNCHANGED nextCode
        ELSE IF ~compareHash(password, user.Password)
        THEN /\ Respond(p, Response("requestEmailChange", 401, "Invalid password.",
                                    username, 0, NoPayload))
             /\ UNCHANGED nextCode
        ELSE /\ nextCode \in Codes
             /\ Continue(p, [op |-> "requestEmailChange", pc |-> "token",
                             username |-> username, user |-> user,
                             newEmail |-> newEmail, code |-> nextCode,
                             currentTime |-> now,
                             expiration |-> now + tokenLifetime])
             /\ nextCode' = nextCode + 1
    /\ UNCHANGED <<users, tokens, mails, objects, articles, now, nextImage>>

requestEmailChangeToken(p, oks) ==
    /\ At(p, "requestEmailChange", "token")
    /\ \E ok \in oks :
        IF ok
        THEN /\ tokens' = createToken([username |-> req[p].username,
                                       value |-> req[p].code,
                                       type |-> "email_change",
                                       newEmail |-> req[p].newEmail,
                                       expiration |-> req[p].expiration])
             /\ Goto(p, "stamp")
        ELSE /\ Respond(p, Response("requestEmailChange", 500,
                                    "Server error. Please try again later.",
                                    req[p].username, req[p].code, NoPayload))
             /\ UNCHANGED tokens
    /\ UNCHANGED <<users, mails, objects, articles, now, nextCode, nextImage>>

requestEmailChangeStamp(p, oks) ==
    /\ At(p, "requestEmailChange", "stamp")
    /\ \E sent \in oks, ok \in oks :
        /\ mails' = sendMail(sent, [kind |-> "email_change", to |-> req[p].newEmail,
                                    username |-> req[p].username, code |-> req[p].code])
        /\ users' = updateUserTable(ok, req[p].user.Username, "LastEmailChange",
                                    req[p].currentTime)
    /\ LET user == Put(req[p].user, "LastPasswordChange", req[p].currentTime)
           verificationToken == getAccessJWT(user)
       IN Respond(p, Response("requestEmailChange", 200,
                              "Verification email sent to new email address.",
                              req[p].username, req[p].code,
                              [accessToken |-> verificationToken,
                               user |-> decodeJWT(verificationToken)]))
    /\ UNCHANGED <<tokens, objects, articles, now, nextCode, nextImage>>

---------------------------------------------------------------------------
(* sendPasswordResetEmail *)

\* sendPasswordResetEmail without the test of Verified
sendPasswordResetEmailUnverified(p, limit, oks, username) ==
    /\ CanStart(p, limit)
    /\ \E user \in getUserResults(oks, username) :
        IF user = Null
        THEN /\ Respond(p, Response("sendPasswordResetEmail", 404, "user not found",
                                    username, 0, NoPayload))
             /\ UNCHANGED nextCode
        ELSE IF withinCooldown(user, "LastPasswordChange", passwordResetCooldown, now)
        THEN /\ Respond(p, Response("sendPasswordResetEmail", 429,
                                    "you have requested a password reset recently. Please try again later.",
                                    username, 0, NoPayload))
             /\ UNCHANGED nextCode
        ELSE /\ nextCode \in Codes
             /\ Continue(p, [op |-> "sendPasswordResetEmail", pc |-> "token",
                             username |-> username, user |-> user, code |-> nextCode,
                             currentTime |-> now])
             /\ nextCode' = nextCode + 1
    /\ UNCHANGED <<users, tokens, mails, objects, articles, now, nextImage>>

sendPasswordResetEmail(p, limit, oks, username) ==
    /\ CanStart(p, limit)
    /\ \E user \in getUserResults(oks, username) :
        IF user = Null
        THEN /\ Respond(p, Response("sendPasswordResetEmail", 404, "user not found",
                                    username, 0, NoPayload))
             /\ UNCHANGED nextCode
        ELSE IF ~("Verified" \in DOMAIN user /\ user.Verified = "true")
        THEN /\ Respond(p, Response("sendPasswordResetEmail", 403, "user is not verified",
                                    username, 0, NoPayload))
             /\ UNCHANGED nextCode
        ELSE IF withinCooldown(user, "LastPasswordChange", passwordResetCooldown, now)
        THEN /\ Respond(p, Response("sendPasswordResetEmail", 429,
                                    "you have requested a password reset recently. Please try again later.",
                                    username, 0, NoPayload))
             /\ UNCHANGED nextCode
        ELSE /\ nextCode \in Codes
             /\ Continue(p, [op |-> "sendPasswordResetEmail", pc |-> "token",
                             username |-> username, user |-> user, code |-> nextCode,
                             currentTime |-> now])
             /\ nextCode' = nextCode + 1
    /\ UNCHANGED <<users, tokens, mails, objects, articles, now, nextImage>>

sendPasswordResetEmailToken(p, oks) ==
    /\ At(p, "sendPasswordResetEmail", "token")
    /\ \E ok \in oks :
        IF ok
        THEN /\ tokens' = createToken([username |-> req[p].username,
                                       value |-> req[p].code,
                                       type |-> "password_reset",
                                       expiration |-> req[p].currentTime + tokenLifetime])
             /\ Goto(p, "stamp")
        ELSE /\ Respond(p, Response("sendPasswordResetEmail", 0, "uncaught exception",
                                    req[p].username, req[p].code, NoPayload))
             /\ UNCHANGED tokens
    /\ UNCHANGED <<users, mails, objects, articles, now, nextCode, nextImage>>

\* user.Email, undefined on a row without the field
emailOf(user) == IF "Email" \in DOMAIN user THEN user.Email ELSE <<>>

\* sendPasswordResetEmail's last step leaving LastPasswordChange as it is
sendPasswordResetEmailStampKeeps(p, oks) ==
    /\ At(p, "sendPasswordResetEmail", "stamp")
    /\ \E sent \in oks :
        mails' = sendMail(sent, [kind |-> "password_reset", to |-> emailOf(req[p].user),
                                 username |-> req[p].username, code |-> req[p].code])
    /\ LET user == Put(req[p].user, "LastPasswordChange", req[p].currentTime)
           verificationToken == getAccessJWT(user)
       IN Respond(p, Response("sendPasswordResetEmail", 200, "password reset email sent.",
                              req[p].username, req[p].code,
                              [accessToken |-> verificationToken,
                               user |-> decodeJWT(verificationToken)]))
    /\ UNCHANGED <<users, tokens, objects, articles, now, nextCode, nextImage>>

sendPasswordResetEmailStamp(p, oks) ==
    /\ At(p, "sendPasswordResetEmail", "stamp")
    /\ \E sent \in oks, ok \in oks :
        /\ mails' = sendMail(sent, [kind |-> "password_reset", to |-> emailOf(req[p].user),
                                    username |-> req[p].username, code |-> req[p].code])
        /\ users' = updateUserTable(ok, req[p].user.Username, "LastPasswordChange",
                                    req[p].currentTime)
    /\ LET user == Put(req[p].user, "LastPasswordChange", req[p].currentTime)
           verificationToken == getAccessJWT(user)
       IN Respond(p, Response("sendPasswordResetEmail", 200, "password reset email sent.",
                              req[p].username, req[p].code,
                              [accessToken |-> verificationToken,
                               user |-> decodeJWT(verificationToken)]))
    /\ UNCHANGED <<tokens, objects, articles, now, nextCode, nextImage>>

---------------------------------------------------------------------------
(* resetPassword *)

resetPassword(p, limit, oks, verificationCode) ==
    /\ CanStart(p, limit)
    /\ \E ok \in oks :
        LET token == getToken(verificationCode)
        IN IF ~ok
           THEN Respond(p, Response("resetPassword", 500,
                                    "Server error. Please try again later.",
                                    "", verificationCode, NoPayload))
           ELSE IF token # Null /\ token.type = "password_reset"
           THEN IF token.expiration < now
                THEN Continue(p, [op |-> "resetPassword", pc |-> "purge",
                                  username |-> token.username, code |-> verificationCode])
                ELSE Continue(p, [op |-> "resetPassword", pc |-> "user",
                                  username |-> token.username, code |-> verificationCode])
           ELSE Respond(p, Response("resetPassword", 404,
                                    "Invalid or expired verification code.",
                                    "", verificationCode, NoPayload))
    /\ UNCHANGED <<users, tokens, mails, objects, articles, now, nextCode, nextImage>>

resetPasswordPurge(p, oks) ==
    /\ At(p, "resetPassword", "purge")
    /\ \E ok \in oks :
        IF ok
        THEN /\ tokens' = deleteToken(req[p].code)
             /\ Respond(p, Response("resetPassword", 410,
                                    "Verification code has expired. Please request a new password reset.",
                                    req[p].username, req[p].code, NoPayload))
        ELSE /\ UNCHANGED tokens
             /\ Respond(p, Response("resetPassword", 500,
                                    "Server error. Please try again later.",
                                    req[p].username, req[p].code, NoPayload))
    /\ UNCHANGED <<users, mails, objects, articles, now, nextCode, nextImage>>

resetPasswordUser(p, oks) ==
    /\ At(p, "resetPassword", "user")
    /\ \E user \in getUserResults(oks, req[p].username),
          suffix \in ResetSuffixes, salt \in Salts :
        IF user = Null
        THEN Respond(p, Response("resetPassword", 404, "User not found.",
                                 req[p].username, req[p].code, NoPayload))
        ELSE Continue(p, [op |-> "resetPassword", pc |-> "update",
                          username |-> req[p].username, code |-> req[p].code,
                          newPassword |-> req[p].username \o suffix,
                          hash |-> genPassHash(req[p].username \o suffix, salt),
                          email |-> emailOf(user)])
    /\ UNCHANGED <<users, tokens, mails, objects, articles, now, nextCode, nextImage>>

\* resetPassword going on to delete the token whatever updateUser returned
resetPasswordUpdateGoesOn(p, oks) ==
    /\ At(p, "resetPassword", "update")
    /\ \E ok \in oks :
        /\ users' = updateUserTable(ok, req[p].username, "Password", req[p].hash)
        /\ Goto(p, "delete")
    /\ UNCHANGED <<tokens, mails, objects, articles, now, nextCode, nextImage>>

resetPasswordUpdate(p, oks) ==
    /\ At(p, "resetPassword", "update")
    /\ \E ok \in oks :
        /\ users' = updateUserTable(ok, req[p].username, "Password", req[p].hash)
        /\ IF updateUserStatus(ok, req[p].username, "Password") = 200
           THEN Goto(p, "delete")
           ELSE Respond(p, Response("resetPassword", 500,
                                    "Server error. Please try again later.",
                                    req[p].username, req[p].code, NoPayload))
    /\ UNCHANGED <<tokens, mails, objects, articles, now, nextCode, nextImage>>

\* resetPassword's last step leaving the token in the store
resetPasswordDeleteKeeps(p, oks) ==
    /\ At(p, "resetPassword", "delete")
    /\ \E sent \in oks :
        /\ mails' = sendMail(sent, [kind |-> "new_password", to |-> req[p].email,
                                    username |-> req[p].username,
                                    password |-> req[p].newPassword])
        /\ Respond(p, Response("resetPassword", 200,
                               "Password reset successful. Please check your email for the new password.",
                               req[p].username, req[p].code, NoPayload))
    /\ UNCHANGED <<users, tokens, objects, articles, now, nextCode, nextImage>>

resetPasswordDelete(p, oks) ==
    /\ At(p, "resetPassword", "delete")
    /\ \E ok \in oks, sent \in oks :
        IF ok
        THEN /\ tokens' = deleteToken(req[p].code)
             /\ mails' = sendMail(sent, [kind |-> "new_password", to |-> req[p].email,
                                         username |-> req[p].username,
                                         password |-> req[p].newPassword])
             /\ Respond(p, Response("resetPassword", 200,
                                    "Password reset successful. Please check your email for the new password.",
                                    req[p].username, req[p].code, NoPayload))
        ELSE /\ UNCHANGED <<tokens, mails>>
             /\ Respond(p, Response("resetPassword", 500,
                                    "Server error. Please try again later.",
                                    req[p].username, req[p].code, NoPayload))
    /\ UNCHANGED <<users, objects, articles, now, nextCode, nextImage>>

---------------------------------------------------------------------------
(* The object store and the article tables *)

Tables == {"ArticlesUnpublished", "ArticlesPublished"}

\* the articles a user can have: article id -> the table it is in
ArticleTable == [a1 |-> "ArticlesUnpublished", a2 |-> "ArticlesPublished"]
ArticleIds == DOMAIN ArticleTable

removeImageFromS3(ok, id) == IF ok THEN objects \ {id} ELSE objects

saveImage(ok, id) == IF ok THEN objects \cup {id} ELSE objects

queryArticles(tableName, username) ==
    { a \in DOMAIN articles :
        /\ articles[a].Table = tableName
        /\ "Author" \in DOMAIN articles[a]
        /\ articles[a].Author = username }

\* UpdateItem with SET on an article: the row of the key gets the link, and
\* a row holding the key and the link is added when there is none
updateArticleLink(tableName, id, newLink) ==
    IF id \in DOMAIN articles /\ articles[id].Table = tableName
    THEN Put(articles, id, Put(articles[id], "AuthorProfilePic", newLink))
    ELSE Put(articles, id, [Table |-> tableName, AuthorProfilePic |-> newLink])

removeAllArticlesByUser(username) ==
    [a \in { b \in DOMAIN articles :
                ~("Author" \in DOMAIN articles[b] /\ articles[b].Author = username) }
        |-> articles[a]]

\* a user who may post writes an article (the article routes)
createArticle(id) ==
    /\ ~Sending
    /\ id \notin DOMAIN articles
    /\ \E username \in DOMAIN users :
        /\ "CanPost" \in DOMAIN users[username]
        /\ "ProfilePic" \in DOMAIN users[username]
        /\ users[username].CanPost = "true"
        /\ articles' = Put(articles, id, [Table |-> ArticleTable[id],
                                          Author |-> username,
                                          AuthorProfilePic |-> users[username].ProfilePic])
    /\ UNCHANGED <<users, tokens, mails, objects, now, nextCode, nextImage, req>>

\* an article written while no request is in flight
createArticleAlone(id) == InFlight = {} /\ createArticle(id)

---------------------------------------------------------------------------
(* changeProfilePic *)

\* checkProfilePictureCooldown blocking also at the end of the window
checkProfilePictureCooldownInclusive(user, currentTime) ==
    ~ /\ "ProfilePicChange" \in DOMAIN user
      /\ user.ProfilePicChange # [str |-> "null"]
      /\ "num" \in DOMAIN user.ProfilePicChange
      /\ currentTime - user.ProfilePicChange.num <= profilePicCooldown

\* ProfilePicChange holds the string 'null' or a number: [str |-> s], [num |-> n];
\* with the field undefined the difference is NaN and the comparison is false
checkProfilePictureCooldown(user, currentTime) ==
    ~ /\ "ProfilePicChange" \in DOMAIN user
      /\ user.ProfilePicChange # [str |-> "null"]
      /\ "num" \in DOMAIN user.ProfilePicChange
      /\ currentTime - user.ProfilePicChange.num < profilePicCooldown

\* /images\/([a-f0-9-]+)\.(?:png|jpg|jpeg|gif)$/ matches the link of a stored
\* image, whose id is a uuid, and not the default link, whose id is pfp
matchesStoredImage(link) ==
    /\ link.dir = "images"
    /\ "uuid" \in DOMAIN link.name
    /\ link.ext \in {"png", "jpg", "jpeg", "gif"}

changeProfilePic(p, limit, oks, username) ==
    /\ CanStart(p, limit)
    /\ \E user \in getUserResults(oks, username) :
        IF user = Null
        THEN /\ Respond(p, Response("changeProfilePic", 404, "user not found",
                                    username, 0, NoPayload))
             /\ UNCHANGED nextImage
        ELSE IF ~checkProfilePictureCooldown(user, now)
        THEN /\ Respond(p, Response("changeProfilePic", 403,
                                    "the user profile picture was changed in the last week",
                                    username, 0, NoPayload))
             /\ UNCHANGED nextImage
        ELSE /\ nextImage \in ImageIds
             /\ Continue(p, [op |-> "changeProfilePic", pc |-> "stamp",
                             username |-> username, user |-> user,
                             timestamp |-> now, imageId |-> nextImage])
             /\ nextImage' = nextImage + 1
    /\ UNCHANGED <<users, tokens, mails, objects, articles, now, nextCode>>

changeProfilePicStamp(p, oks) ==
    /\ At(p, "changeProfilePic", "stamp")
    /\ \E ok \in oks :
        LET status == updateUserStatus(ok, req[p].user.Username, "ProfilePicChange")
            user == Put(req[p].user, "ProfilePicChange", [num |-> req[p].timestamp])
        IN /\ users' = updateUserTable(ok, req[p].user.Username, "ProfilePicChange",
                                       [num |-> req[p].timestamp])
           /\ IF status # 200
              THEN Respond(p, Response("changeProfilePic", status, updateUserMessage(status),
                                       req[p].username, 0, NoPayload))
              ELSE IF "ProfilePic" \notin DOMAIN user
              THEN Respond(p, Response("changeProfilePic", 0, "uncaught exception",
                                       req[p].username, 0, NoPayload))
              ELSE IF matchesStoredImage(user.ProfilePic)
              THEN Continue(p, [req[p] EXCEPT !.pc = "remove", !.user = user])
              ELSE Continue(p, [req[p] EXCEPT !.pc = "save", !.user = user])
    /\ UNCHANGED <<tokens, mails, objects, articles, now, nextCode, nextImage>>

changeProfilePicRemove(p, oks) ==
    /\ At(p, "changeProfilePic", "remove")
    /\ \E ok \in oks : objects' = removeImageFromS3(ok, req[p].user.ProfilePic.name.uuid)
    /\ Goto(p, "save")
    /\ UNCHANGED <<users, tokens, mails, articles, now, nextCode, nextImage>>

\* no user taken to have articles
mayHaveArticlesNever(user) == FALSE

\* user.Admin || user.CanPost: a string, also 'false', is truthy
mayHaveArticles(user) == "Admin" \in DOMAIN user \/ "CanPost" \in DOMAIN user

changeProfilePicSave(p, oks) ==
    /\ At(p, "changeProfilePic", "save")
    /\ \E ok \in oks :
        LET user == Put(req[p].user, "ProfilePic", ImageUrl(req[p].imageId))
        IN /\ objects' = saveImage(ok, req[p].imageId)
           /\ IF ~ok
              THEN Respond(p, Response("changeProfilePic", 500, "server error",
                                       req[p].username, 0, NoPayload))
              ELSE IF mayHaveArticles(user)
              THEN Continue(p, [op |-> "changeProfilePic", pc |-> "query",
                                username |-> req[p].username, user |-> user,
                                toQuery |-> Tables, toUpdate |-> {}])
              ELSE Continue(p, [op |-> "changeProfilePic", pc |-> "link",
                                username |-> req[p].username, user |-> user])
    /\ UNCHANGED <<users, tokens, mails, articles, now, nextCode, nextImage>>

\* the two tables are queried concurrently: in either order
changeProfilePicQuery(p, oks, tableName) ==
    /\ At(p, "changeProfilePic", "query")
    /\ tableName \in req[p].toQuery
    /\ \E ok \in oks :
        IF ~ok
        THEN Respond(p, Response("changeProfilePic", 0, "uncaught exception",
                                 req[p].username, 0, NoPayload))
        ELSE LET found == { <<tableName, a>> : a \in queryArticles(tableName, req[p].user.Username) }
                 toQuery == req[p].toQuery \ {tableName}
                 toUpdate == req[p].toUpdate \cup found
             IN IF toQuery # {}
                THEN Continue(p, [req[p] EXCEPT !.toQuery = toQuery, !.toUpdate = toUpdate])
                ELSE IF toUpdate # {}
                THEN Continue(p, [op |-> "changeProfilePic", pc |-> "articles",
                                  username |-> req[p].username, user |-> req[p].user,
                                  toUpdate |-> toUpdate])
                ELSE Continue(p, [op |-> "changeProfilePic", pc |-> "link",
                                  username |-> req[p].username, user |-> req[p].user])
    /\ UNCHANGED <<users, tokens, mails, objects, articles, now, nextCode, nextImage>>

\* the articles found are updated concurrently: in any order
changeProfilePicArticle(p, oks, item) ==
    /\ At(p, "changeProfilePic", "articles")
    /\ item \in req[p].toUpdate
    /\ \E ok \in oks :
        IF ~ok
        THEN /\ Respond(p, Response("changeProfilePic", 0, "uncaught exception",
                                    req[p].username, 0, NoPayload))
             /\ UNCHANGED articles
        ELSE /\ articles' = updateArticleLink(item[1], item[2], req[p].user.ProfilePic)
             /\ IF req[p].toUpdate # {item}
                THEN Continue(p, [req[p] EXCEPT !.toUpdate = @ \ {item}])
                ELSE Continue(p, [op |-> "changeProfilePic", pc |-> "link",
                                  username |-> req[p].username, user |-> req[p].user])
    /\ UNCHANGED <<users, tokens, mails, objects, now, nextCode, nextImage>>

changeProfilePicLink(p, oks) ==
    /\ At(p, "changeProfilePic", "link")
    /\ \E ok \in oks :
        LET status == updateUserStatus(ok, req[p].username, "ProfilePic")
            user == Without(req[p].user, {"Password", "Liked", "VerificationCode"})
        IN /\ users' = updateUserTable(ok, req[p].username, "ProfilePic",
                                       req[p].user.ProfilePic)
           /\ Respond(p, Response("changeProfilePic", status, updateUserMessage(status),
                                  req[p].username, 0,
                                  [verificationToken |-> getAccessJWT(user),
                                   user |-> user]))
    /\ UNCHANGED <<tokens, mails, objects, articles, now, nextCode, nextImage>>

---------------------------------------------------------------------------
(* deleteUser and deleteUserAccount *)

deleteUserStatus(ok, username) ==
    IF ~ok THEN 500
    ELSE IF username \notin DOMAIN users THEN 404
    ELSE 200

deleteUserMessage(status) ==
    CASE status = 500 -> "server error"
      [] status = 404 -> "account not found"
      [] OTHER -> "account deleted succesfuly"

deleteUser(ok, username) ==
    IF ok /\ username \in DOMAIN users THEN Remove(users, username) ELSE users

\* deleteUserAccount without the comparison of the password
deleteUserAccountAnyPassword(p, limit, oks, username, password) ==
    /\ CanStart(p, limit)
    /\ \E user \in getUserResults(oks, username) :
        IF user = Null
        THEN Respond(p, Response("deleteUserAccount", 404, "user not found.",
                                 username, 0, NoPayload))
        ELSE IF "ProfilePic" \notin DOMAIN user
        THEN Respond(p, Response("deleteUserAccount", 500,
                                 "Server error while deleting user account.",
                                 username, 0, NoPayload))
        ELSE IF user.ProfilePic.name # [word |-> "pfp"]
        THEN Continue(p, [op |-> "deleteUserAccount", pc |-> "image",
                          username |-> username, id |-> user.ProfilePic.name.uuid])
        ELSE Continue(p, [op |-> "deleteUserAccount", pc |-> "tokens",
                          username |-> username])
    /\ UNCHANGED <<users, tokens, mails, objects, articles, now, nextCode, nextImage>>

deleteUserAccount(p, limit, oks, username, password) ==
    /\ CanStart(p, limit)
    /\ \E user \in getUserResults(oks, username) :
        IF user = Null
        THEN Respond(p, Response("deleteUserAccount", 404, "user not found.",
                                 username, 0, NoPayload))
        ELSE IF compareThrows(user)
        THEN Respond(p, Response("deleteUserAccount", 500,
                                 "Server error while deleting user account.",
                                 username, 0, NoPayload))
        ELSE IF ~compareHash(password, user.Password)
        THEN Respond(p, Response("deleteUserAccount", 403, "invalid password.",
                                 username, 0, NoPayload))
        ELSE IF "ProfilePic" \notin DOMAIN user
        THEN Respond(p, Response("deleteUserAccount", 500,
                                 "Server error while deleting user account.",
                                 username, 0, NoPayload))
        ELSE IF user.ProfilePic.name # [word |-> "pfp"]
        THEN Continue(p, [op |-> "deleteUserAccount", pc |-> "image",
                          username |-> username, id |-> user.ProfilePic.name.uuid])
        ELSE Continue(p, [op |-> "deleteUserAccount", pc |-> "tokens",
                          username |-> username])
    /\ UNCHANGED <<users, tokens, mails, objects, articles, now, nextCode, nextImage>>

deleteUserAccountImage(p, oks) ==
    /\ At(p, "deleteUserAccount", "image")
    /\ \E ok \in oks :
        /\ objects' = removeImageFromS3(ok, req[p].id)
        /\ IF ok
           THEN Continue(p, [op |-> "deleteUserAccount", pc |-> "tokens",
                             username |-> req[p].username])
           ELSE Respond(p, Response("deleteUserAccount", 500, "server error",
                                    req[p].username, 0, NoPayload))
    /\ UNCHANGED <<users, tokens, mails, articles, now, nextCode, nextImage>>

\* deleteUserAccount going on to the articles whatever deleteUserTokens returned
deleteUserAccountTokensGoesOn(p, oks) ==
    /\ At(p, "deleteUserAccount", "tokens")
    /\ \E ok \in oks :
        IF ok
        THEN /\ tokens' = deleteUserTokens(req[p].username)
             /\ Goto(p, "articles")
        ELSE /\ UNCHANGED tokens
             /\ Goto(p, "articles")
    /\ UNCHANGED <<users, mails, objects, articles, now, nextCode, nextImage>>

deleteUserAccountTokens(p, oks) ==
    /\ At(p, "deleteUserAccount", "tokens")
    /\ \E ok \in oks :
        IF ok
        THEN /\ tokens' = deleteUserTokens(req[p].username)
             /\ Goto(p, "articles")
        ELSE /\ UNCHANGED tokens
             /\ Respond(p, Response("deleteUserAccount", 500, "server error",
                                    req[p].username, 0, NoPayload))
    /\ UNCHANGED <<users, mails, objects, articles, now, nextCode, nextImage>>

\* deleteUserAccount going on to the user row with the articles left in place
deleteUserAccountArticlesSkips(p, oks) ==
    /\ At(p, "deleteUserAccount", "articles")
    /\ Goto(p, "user")
    /\ UNCHANGED <<users, tokens, mails, objects, articles, now, nextCode, nextImage>>

deleteUserAccountArticles(p, oks) ==
    /\ At(p, "deleteUserAccount", "articles")
    /\ \E ok \in oks :
        IF ok
        THEN /\ articles' = removeAllArticlesByUser(req[p].username)
             /\ Goto(p, "user")
        ELSE /\ UNCHANGED articles
             /\ Respond(p, Response("deleteUserAccount", 500, "server error",
                                    req[p].username, 0, NoPayload))
    /\ UNCHANGED <<users, tokens, mails, objects, now, nextCode, nextImage>>

deleteUserAccountUser(p, oks) ==
    /\ At(p, "deleteUserAccount", "user")
    /\ \E ok \in oks :
        LET status == deleteUserStatus(ok, req[p].username)
        IN /\ users' = deleteUser(ok, req[p].username)
           /\ Respond(p, Response("deleteUserAccount", status, deleteUserMessage(status),
                                  req[p].username, 0, NoPayload))
    /\ UNCHANGED <<tokens, mails, objects, articles, now, nextCode, nextImage>>

---------------------------------------------------------------------------
(* authenticateToken and authTokenOptional *)

\* the instants of the clock for the access token: when it is made, before
\* it expires and when it expires
GateInstants == { 0, accessLifetime - 1, accessLifetime }

\* a token whose payload was edited after it was signed: its signature is
\* that of no secret
forge(token) == [token EXCEPT !.kind = "forged"]

\* the client keeps the token of the response it was given, or the refresh
\* token, or an edited token, and sends it as the cookie named token of its
\* next request (req.cookies.token)
cookieToken(p) ==
    /\ req[p].pc = "done"
    /\ "payload" \in DOMAIN req[p]
    /\ "accessToken" \in DOMAIN req[p].payload
    /\ \E cookie \in { req[p].payload.accessToken, forge(req[p].payload.accessToken) }
                     \cup { req[p].payload[f] : f \in DOMAIN req[p].payload \cap {"refreshToken"} } :
        req' = [req EXCEPT ![p] = [op |-> "request", pc |-> "cookie", cookie |-> cookie]]
    /\ UNCHANGED <<users, tokens, mails, objects, articles, now, nextCode, nextImage>>

\* a request comes in with its cookie, or with none
Arrives(p, limit) == At(p, "request", "cookie") \/ CanStart(p, limit)

cookieOf(p) == IF req[p].pc = "cookie" THEN req[p].cookie ELSE Null

\* jwt.verify with the secret of the access tokens: the signature is checked
\* first, then the expiration (exp <= clock); a refresh token is signed with
\* another secret
jwtVerify(token) ==
    IF token.kind # "access" THEN [err |-> "JsonWebTokenError"]
    ELSE IF now >= token.exp THEN [err |-> "TokenExpiredError"]
    ELSE [user |-> decodeJWT(token)]

Rejected(status, message) == [next |-> FALSE, status |-> status, message |-> message]
Passed(user) == [next |-> TRUE, user |-> user]

\* user.Verified == 'false'
claimsUnverified(user) == "Verified" \in DOMAIN user /\ user.Verified = "false"

\* the gate without the test of Verified
authenticateTokenResultAnyone(token, requireVerified) ==
    IF token = Null
    THEN Rejected(400, "missing authentication token")
    ELSE LET verified == jwtVerify(token)
         IN IF "err" \in DOMAIN verified
            THEN IF verified.err = "TokenExpiredError"
                 THEN Rejected(401, "token expired")
                 ELSE Rejected(403, "invalid token")
            ELSE Passed(verified.user)

authenticateTokenResult(token, requireVerified) ==
    IF token = Null
    THEN Rejected(400, "missing authentication token")
    ELSE LET verified == jwtVerify(token)
         IN IF "err" \in DOMAIN verified
            THEN IF verified.err = "TokenExpiredError"
                 THEN Rejected(401, "token expired")
                 ELSE Rejected(403, "invalid token")
            ELSE IF requireVerified /\ claimsUnverified(verified.user)
            THEN Rejected(403, "account not verified")
            ELSE Passed(verified.user)

authTokenOptionalResult(token) ==
    IF token = Null
    THEN Passed(<<>>)
    ELSE LET verified == jwtVerify(token)
         IN IF "err" \in DOMAIN verified
            THEN IF verified.err = "TokenExpiredError"
                 THEN Rejected(401, "token expired")
                 ELSE Rejected(403, "invalid token")
            ELSE Passed(verified.user)

authenticateToken(p, limit, requireVerified) ==
    /\ Arrives(p, limit)
    /\ Respond(p, [op |-> "authenticateToken", pc |-> "done",
                   cookie |-> cookieOf(p), requireVerified |-> requireVerified,
                   result |-> authenticateTokenResult(cookieOf(p), requireVerified)])
    /\ UNCHANGED <<users, tokens, mails, objects, articles, now, nextCode, nextImage>>

authTokenOptional(p, limit) ==
    /\ Arrives(p, limit)
    /\ Respond(p, [op |-> "authTokenOptional", pc |-> "done",
                   cookie |-> cookieOf(p),
                   result |-> authTokenOptionalResult(cookieOf(p))])
    /\ UNCHANGED <<users, tokens, mails, objects, articles, now, nextCode, nextImage>>

---------------------------------------------------------------------------
(* The clock *)

Tick(instants) ==
    /\ ~Sending
    /\ \E t \in instants : t > now /\ now' = t
    /\ UNCHANGED <<users, tokens, mails, objects, articles, nextCode, nextImage, req>>

---------------------------------------------------------------------------

Init ==
    /\ users = <<>>
    /\ tokens = <<>>
    /\ mails = {}
    /\ objects = {}
    /\ articles = <<>>
    /\ now = 0
    /\ nextCode = 1
    /\ nextImage = 1
    /\ req = [p \in Procs |-> Idle]

\* the steps of registration and authentication
Registration(p, limit, oks) ==
    \/ \E u \in Usernames, pw \in RegisterPasswords, em \in RegisterEmails,
          cp \in CanPostChoices, ad \in AdminChoices :
            createUser(p, limit, oks, u, pw, em, cp, ad)
    \/ createUserPut(p, oks)
    \/ createUserToken(p, oks)
    \/ createUserMail(p, oks)
    \/ \E u \in Usernames, pw \in LoginPasswords : verifyUser(p, limit, oks, u, pw)

\* the steps of the handlers that verify and change the credentials
Credentials(p, limit, oks) ==
    \/ \E u \in Usernames, old \in LoginPasswords, new \in NewPasswords :
            changePassword(p, limit, oks, u, old, new)
    \/ changePasswordPassword(p, oks)
    \/ changePasswordStamp(p, oks)
    \/ \E c \in Codes : verifyEmail(p, limit, oks, c)
    \/ verifyEmailUser(p, oks)
    \/ verifyEmailUpdate(p, oks)
    \/ verifyEmailDelete(p, oks)
    \/ \E c \in Codes : verifyEmailChange(p, limit, oks, c)
    \/ verifyEmailChangeUser(p, oks)
    \/ verifyEmailChangeUpdate(p, oks)
    \/ verifyEmailChangeDelete(p, oks)
    \/ \E u \in Usernames, pw \in LoginPasswords, em \in NewEmails :
            requestEmailChange(p, limit, oks, u, pw, em)
    \/ requestEmailChangeToken(p, oks)
    \/ requestEmailChangeStamp(p, oks)
    \/ \E u \in Usernames : sendPasswordResetEmail(p, limit, oks, u)
    \/ sendPasswordResetEmailToken(p, oks)
    \/ sendPasswordResetEmailStamp(p, oks)
    \/ \E c \in Codes : resetPassword(p, limit, oks, c)
    \/ resetPasswordPurge(p, oks)
    \/ resetPasswordUser(p, oks)
    \/ resetPasswordUpdate(p, oks)
    \/ resetPasswordDelete(p, oks)

\* the steps of the profile picture handler
Pictures(p, limit, oks) ==
    \/ \E u \in Usernames : changeProfilePic(p, limit, oks, u)
    \/ changeProfilePicStamp(p, oks)
    \/ changeProfilePicRemove(p, oks)
    \/ changeProfilePicSave(p, oks)
    \/ \E t \in Tables : changeProfilePicQuery(p, oks, t)
    \/ \E t \in Tables, a \in ArticleIds : changeProfilePicArticle(p, oks, <<t, a>>)
    \/ changeProfilePicLink(p, oks)

\* the steps of the account deletion handler, but for the removal of a
\* stored picture (deleteUserAccountImage)
Deletion(p, limit, oks) ==
    \/ \E u \in Usernames, pw \in LoginPasswords : deleteUserAccount(p, limit, oks, u, pw)
    \/ deleteUserAccountTokens(p, oks)
    \/ deleteUserAccountArticles(p, oks)
    \/ deleteUserAccountUser(p, oks)

\* Registration and the credential handlers, requests served concurrently
Next ==
    \/ Tick(FewInstants)
    \/ \E p \in Procs :
        \/ Deliver(p)
        \/ Registration(p, MaxProcs, Reliable)
        \/ Credentials(p, MaxProcs, Reliable)

Spec == Init /\ [][Next]_vars

\* Registration, the credential handlers and account deletion, requests
\* served one after the other
NextSeq ==
    \/ Tick(Instants)
    \/ \E p \in Procs :
        \/ Deliver(p)
        \/ Registration(p, 1, Reliable)
        \/ Credentials(p, 1, Reliable)
        \/ Deletion(p, 1, Reliable)

SpecSeq == Init /\ [][NextSeq]_vars

\* Registration, the profile picture handler and account deletion over the
\* articles of the user, requests served one after the other
NextPic ==
    \/ Tick(PicInstants)
    \/ \E a \in ArticleIds : createArticleAlone(a)
    \/ \E p \in Procs :
        \/ Deliver(p)
        \/ Registration(p, 1, Reliable)
        \/ Pictures(p, 1, Reliable)
        \/ Deletion(p, 1, Reliable)
        \/ deleteUserAccountImage(p, Reliable)

SpecPic == Init /\ [][NextPic]_vars

\* Registration and the profile picture handler over the articles of the
\* user, requests served concurrently
NextPicRace ==
    \/ Tick(PicInstants)
    \/ \E a \in ArticleIds : createArticle(a)
    \/ \E p \in Procs :
        \/ Deliver(p)
        \/ Registration(p, MaxProcs, Reliable)
        \/ Pictures(p, MaxProcs, Reliable)

SpecPicRace == Init /\ [][NextPicRace]_vars

\* Registration and the profile picture handler, requests served one after
\* the other, the calls the picture handler awaits failing or not
NextPicFault ==
    \/ Tick(PicInstants)
    \/ \E a \in ArticleIds : createArticleAlone(a)
    \/ \E p \in Procs :
        \/ Deliver(p)
        \/ Registration(p, 1, Reliable)
        \/ Pictures(p, 1, Unreliable)

SpecPicFault == Init /\ [][NextPicFault]_vars

\* Registration, the profile picture handler and account deletion, requests
\* served one after the other, the calls account deletion awaits failing or
\* not
NextDeleteFault ==
    \/ Tick(PicInstants)
    \/ \E a \in ArticleIds : createArticleAlone(a)
    \/ \E p \in Procs :
        \/ Deliver(p)
        \/ Registration(p, 1, Reliable)
        \/ Pictures(p, 1, Reliable)
        \/ Deletion(p, 1, Unreliable)
        \/ deleteUserAccountImage(p, Unreliable)

SpecDeleteFault == Init /\ [][NextDeleteFault]_vars

\* Registration and the credential handlers, requests served one after the
\* other, the calls the credential handlers await failing or not
NextCredFault ==
    \/ Tick(FewInstants)
    \/ \E p \in Procs :
        \/ Deliver(p)
        \/ Registration(p, 1, Reliable)
        \/ Credentials(p, 1, Unreliable)

SpecCredFault == Init /\ [][NextCredFault]_vars

\* the steps of verifyEmail
Verification(p, limit, oks) ==
    \/ \E c \in Codes : verifyEmail(p, limit, oks, c)
    \/ verifyEmailUser(p, oks)
    \/ verifyEmailUpdate(p, oks)
    \/ verifyEmailDelete(p, oks)

\* the steps of the two gates
Gates(p, limit) ==
    \/ cookieToken(p)
    \/ \E requireVerified \in BOOLEAN : authenticateToken(p, limit, requireVerified)
    \/ authTokenOptional(p, limit)

\* Registration, verifyEmail and the gates of the routes: the client sends
\* the tokens it was given, while they last and after
NextGate ==
    \/ Tick(GateInstants)
    \/ \E p \in Procs :
        \/ Deliver(p)
        \/ Registration(p, MaxProcs, Reliable)
        \/ Verification(p, MaxProcs, Reliable)
        \/ Gates(p, MaxProcs)

SpecGate == Init /\ [][NextGate]_vars

\* the steps of updateUser called for a request
Updates(p, limit, oks) ==
    \/ \E username \in Usernames, input \in UpdateInputs :
            updateUser(p, limit, username, input[1], input[2], input[3])
    \/ updateUserSend(p, oks)

\* Registration one request at a time, and updateUser called for requests
\* served concurrently
NextUpdate ==
    \/ Tick(FewInstants)
    \/ \E p \in Procs :
        \/ Deliver(p)
        \/ Registration(p, 1, Reliable)
        \/ Updates(p, MaxProcs, Reliable)

SpecUpdate == Init /\ [][NextUpdate]_vars

\* the instants of the clock while an account is deleted: registration, and
\* the end of the cooldowns that started then
RaceInstants == { 0, emailChangeCooldown }

\* the steps of the handlers that make a token for a registered user
TokenRequests(p, limit, oks) ==
    \/ \E u \in Usernames, pw \in LoginPasswords, em \in NewEmails :
            requestEmailChange(p, limit, oks, u, pw, em)
    \/ requestEmailChangeToken(p, oks)
    \/ requestEmailChangeStamp(p, oks)
    \/ \E u \in Usernames : sendPasswordResetEmail(p, limit, oks, u)
    \/ sendPasswordResetEmailToken(p, oks)
    \/ sendPasswordResetEmailStamp(p, oks)

\* Registration, verifyEmail, the handlers that make a token and account
\* deletion, requests served concurrently
NextDeleteRace ==
    \/ Tick(RaceInstants)
    \/ \E p \in Procs :
        \/ Deliver(p)
        \/ Registration(p, MaxProcs, Reliable)
        \/ Verification(p, MaxProcs, Reliable)
        \/ TokenRequests(p, MaxProcs, Reliable)
        \/ Deletion(p, MaxProcs, Reliable)

SpecDeleteRace == Init /\ [][NextDeleteRace]_vars

---------------------------------------------------------------------------
(* What the claims speak of *)

ConsumingOps == {"verifyEmail", "verifyEmailChange", "resetPassword"}

\* this step admits a request of op on code c to slot p
Starts(p, op, c) ==
    /\ req[p] = Idle
    /\ req'[p] # Idle
    /\ req'[p].op = op
    /\ req'[p].code = c

\* this step is the return of the handler in slot p
Returns(p) == req[p].pc # "done" /\ req'[p].pc = "done"

\* the fields a response exposes: those of the payload of each token in
\* it, and those of the user object in it
ExposedFields(payload) ==
    UNION ( { DOMAIN payload[f].payload : f \in DOMAIN payload \ {"user", "none"} }
            \cup { DOMAIN payload[f] : f \in DOMAIN payload \cap {"user"} } )

\* code c was drawn and no handler has its token still to create
Pending(c) ==
    \E q \in Procs :
        /\ req[q].op \in {"createUser", "requestEmailChange", "sendPasswordResetEmail"}
        /\ req[q].pc \in {"put", "token"}
        /\ req[q].code = c

\* code c was in the token store, or its creation was given up, and it is
\* not there
Spent(c) == c < nextCode /\ ~Pending(c) /\ c \notin DOMAIN tokens

Expired(c) == c \in DOMAIN tokens /\ tokens[c].expiration < now

HasType(c, type) == c \in DOMAIN tokens /\ tokens[c].type = type

\* C1: every token issued by an operation, and every user object returned in
\* a response, omits the password hash and the liked articles
C1_NoSecretInResponse ==
    \A p \in Procs :
        req[p].pc = "done" =>
            ExposedFields(req[p].payload) \cap {"Password", "Liked"} = {}

\* C2: a token of one type is never applied by an operation expecting
\* another: verifyEmail, verifyEmailChange and resetPassword given the code
\* of a token of another type return at once with NotFound or Gone and change
\* neither the Users table nor the token store
C2_WrongTypeChangesNothing ==
    [][ \A p \in Procs, c \in Codes :
          ( \/ Starts(p, "verifyEmail", c) /\ c \in DOMAIN tokens
                                           /\ ~HasType(c, "email_verification")
            \/ Starts(p, "verifyEmailChange", c) /\ c \in DOMAIN tokens
                                                 /\ ~HasType(c, "email_change")
            \/ Starts(p, "resetPassword", c) /\ c \in DOMAIN tokens
                                             /\ ~HasType(c, "password_reset") )
          => /\ req'[p].pc = "done"
             /\ req'[p].status \in {404, 410}
             /\ users' = users
             /\ tokens' = tokens ]_vars

\* C2 happens: verifyEmail was given the code of a password_reset token
\* that is in the store, and answered 404
C2_Witness ==
    \E p \in Procs :
        /\ Returned(p, "verifyEmail")
        /\ req[p].status = 404
        /\ HasType(req[p].code, "password_reset")

\* C3: tokens are single-use: when verifyEmail, verifyEmailChange or
\* resetPassword returns success for a code, the code is not in the token
\* store; it never comes back; and any later call of these operations with it
\* returns at once with NotFound or Gone and changes no user
C3_SingleUse ==
    [][ /\ \A p \in Procs, c \in Codes :
            ( /\ Returns(p)
              /\ req'[p].op \in ConsumingOps
              /\ req'[p].status = 200
              /\ req'[p].code = c )
                => Spent(c)'
        /\ \A c \in Codes : Spent(c) => Spent(c)'
        /\ \A p \in Procs, c \in Codes :
            Spent(c) /\ (\E op \in ConsumingOps : Starts(p, op, c))
                => /\ req'[p].pc = "done"
                   /\ req'[p].status \in {404, 410}
                   /\ users' = users ]_vars

\* C3 happens: the code the verification mail carried is spent, the user
\* it verified is verified, and verifyEmail given it again answered 404
C3_Witness ==
    \E p \in Procs, m \in mails :
        /\ m.kind = "account_verification"
        /\ Returned(p, "verifyEmail")
        /\ req[p].code = m.code
        /\ req[p].status = 404
        /\ Spent(m.code)
        /\ m.username \in DOMAIN users
        /\ users[m.username].Verified = "true"

\* the verification code c was mailed, its token is gone from the store and
\* its user is verified: verifyEmail has applied it (no other operation of
\* Next removes an email_verification token)
VerifiedWith(c) ==
    \E m \in mails :
        /\ m.kind = "account_verification"
        /\ m.code = c
        /\ c \notin DOMAIN tokens
        /\ m.username \in DOMAIN users
        /\ users[m.username].Verified = "true"

\* C4 as claimed: after verifyEmail has applied a code and set Verified to
\* true, verifyEmail with the same code returns 410
C4_RepeatIsGone ==
    [][ \A p \in Procs, c \in Codes :
          VerifiedWith(c) /\ Starts(p, "verifyEmail", c)
              => req'[p].pc = "done" /\ req'[p].status = 410 ]_vars

\* C4 as amended: verifyEmail returning 200 for a code has deleted its
\* token, and after verifyEmail has applied a code and set Verified to
\* true, verifyEmail with the same code returns 404
C4_RepeatIsNotFound ==
    [][ /\ \A p \in Procs :
            Returns(p) /\ req'[p].op = "verifyEmail" /\ req'[p].status = 200
                => req'[p].code \notin DOMAIN tokens'
        /\ \A p \in Procs, c \in Codes :
            VerifiedWith(c) /\ Starts(p, "verifyEmail", c)
                => /\ req'[p].pc = "done"
                   /\ req'[p].status = 404
                   /\ req'[p].message = "invalid or expired verification code" ]_vars

\* C4 happens: verifyEmail was repeated with a code it had applied
C4_Witness ==
    \E p \in Procs :
        /\ Returned(p, "verifyEmail")
        /\ VerifiedWith(req[p].code)
        /\ req[p].status = 404

\* C5: an expired token is never applied: verifyEmailChange given an
\* expired email_change token returns 410 at once and changes no user;
\* resetPassword given an expired password_reset token goes on to purge
\* it only, and returns 410 from there, changing no user
C5_ExpiredNeverApplied ==
    [][ \A p \in Procs, c \in Codes :
          /\ Starts(p, "verifyEmailChange", c) /\ HasType(c, "email_change") /\ Expired(c)
                => req'[p].pc = "done" /\ req'[p].status = 410 /\ users' = users
          /\ Starts(p, "resetPassword", c) /\ HasType(c, "password_reset") /\ Expired(c)
                => req'[p].pc = "purge" /\ users' = users
          /\ req[p].op = "resetPassword" /\ req[p].pc = "purge" /\ req'[p] # req[p]
                => req'[p].pc = "done" /\ req'[p].status = 410 /\ users' = users ]_vars

\* C5 happens: resetPassword was given an expired password_reset token and
\* answered 410, and an expired email_change token is in the store
C5_Witness ==
    \E p \in Procs, c \in Codes :
        /\ Returned(p, "resetPassword")
        /\ req[p].status = 410
        /\ HasType(c, "email_change")
        /\ Expired(c)

\* C6: an expired token is purged when it is rejected: after
\* verifyEmailChange or resetPassword has answered 410 for a code, no
\* expired token of the type it expects is in the store under that code
C6_ExpiredIsPurged ==
    \A p \in Procs :
        /\ Returned(p, "verifyEmailChange") /\ req[p].status = 410
              => ~(HasType(req[p].code, "email_change") /\ Expired(req[p].code))
        /\ Returned(p, "resetPassword") /\ req[p].status = 410
              => ~(HasType(req[p].code, "password_reset") /\ Expired(req[p].code))

IsVerified(table, username) ==
    /\ username \in DOMAIN table
    /\ "Verified" \in DOMAIN table[username]
    /\ table[username].Verified = "true"

\* C7: the row createUser writes is unverified, and a user who is verified
\* stays verified for as long as the row exists
C7_VerifiedIsMonotonic ==
    [][ /\ \A p \in Procs :
            req[p].op = "createUser" /\ req[p].pc = "put" /\ req'[p].pc = "token"
                => users'[req[p].username].Verified = "false"
        /\ \A u \in Usernames :
            IsVerified(users, u) /\ u \in DOMAIN users' => IsVerified(users', u) ]_vars

\* C8: createUser for a username that has no row, with a well-shaped e-mail
\* address and a password of 8 characters or more, is admitted; it then
\* returns 200 leaving a row with Verified false and an email_verification
\* token of expiration 0 owned by the username under the code it drew; and
\* verifyUser with a wrong password answers 401 and changes no user
C8_RegisterThenWrongPassword ==
    [][ /\ \A p \in Procs, u \in Usernames, pw \in RegisterPasswords,
              em \in RegisterEmails, cp \in CanPostChoices, ad \in AdminChoices :
            ( /\ createUser(p, 1, Reliable, u, pw, em, cp, ad)
              /\ isValidEmail(em)
              /\ Len(pw) >= 8
              /\ u \notin DOMAIN users )
                => req'[p].pc = "put"
        /\ \A p \in Procs :
            req[p].op = "createUser" /\ req[p].pc \in {"put", "token", "mail"} /\ Returns(p)
                => /\ req'[p].status = 200
                   /\ req'[p].username \in DOMAIN users'
                   /\ users'[req'[p].username].Verified = "false"
                   /\ req'[p].code \in DOMAIN tokens'
                   /\ tokens'[req'[p].code] = [username |-> req'[p].username,
                                               value |-> req'[p].code,
                                               type |-> "email_verification",
                                               expiration |-> 0]
        /\ \A p \in Procs, u \in Usernames, pw \in LoginPasswords :
            ( /\ verifyUser(p, 1, Reliable, u, pw)
              /\ u \in DOMAIN users
              /\ ~compareHash(pw, users[u].Password) )
                => /\ req'[p].pc = "done"
                   /\ req'[p].status = 401
                   /\ users' = users ]_vars

\* C8 happens: after a registration, verifyUser with a wrong password
\* answered 401 and the user is unverified, the verification token in the store
C8_Witness ==
    \E p \in Procs, c \in Codes :
        /\ Returned(p, "verifyUser")
        /\ req[p].status = 401
        /\ req[p].username \in DOMAIN users
        /\ users[req[p].username].Verified = "false"
        /\ HasType(c, "email_verification")
        /\ tokens[c].username = req[p].username
        /\ tokens[c].expiration = 0

\* C9: createUser with a malformed e-mail address, a password shorter than
\* 8 characters or a username that has a row returns 400 at once and changes
\* nothing: no row, no token, no mail, no code drawn
C9_RejectedRegisterChangesNothing ==
    [][ \A p \in Procs, u \in Usernames, pw \in RegisterPasswords,
            em \in RegisterEmails, cp \in CanPostChoices, ad \in AdminChoices :
          ( /\ createUser(p, MaxProcs, Reliable, u, pw, em, cp, ad)
            /\ (~isValidEmail(em) \/ Len(pw) < 8 \/ u \in DOMAIN users) )
              => /\ req'[p].pc = "done"
                 /\ req'[p].status = 400
                 /\ users' = users
                 /\ tokens' = tokens
                 /\ mails' = mails
                 /\ nextCode' = nextCode ]_vars

\* C9 happens: createUser for a username that has a row answered 400
C9_Witness ==
    \E p \in Procs :
        /\ Returned(p, "createUser")
        /\ req[p].status = 400
        /\ req[p].message = "username is already in use"
        /\ req[p].username \in DOMAIN users

\* a createUser for username u that is past the uniqueness check
Registering(p, u) ==
    /\ req[p].op = "createUser"
    /\ req[p].username = u
    /\ req[p].pc \in {"put", "token", "mail"} \/ (req[p].pc = "done" /\ req[p].status = 200)

\* C10: of two createUser requests for one username in flight at once, at
\* most one gets past the uniqueness check and returns success, and
\* createUser never writes over a row that exists
C10_UsernameIsUnique ==
    [][ /\ \A p, q \in Procs, u \in Usernames :
            p # q => ~(Registering(p, u) /\ Registering(q, u))
        /\ \A p \in Procs :
            req[p].op = "createUser" /\ req[p].pc = "put" /\ req'[p].pc = "token"
                => req[p].username \notin DOMAIN users ]_vars

\* C11: changeProfilePic, one request at a time: with ProfilePicChange
\* 'null' the request passes the cooldown check; with ProfilePicChange t it
\* returns 403 and changes nothing before t + 7 days, and passes the check
\* at or after t + 7 days; a request that passed the check stamps
\* ProfilePicChange with its time and returns 200 with the new link stored
C11_CooldownSequential ==
    [][ /\ \A p \in Procs, u \in Usernames :
            changeProfilePic(p, 1, Reliable, u) /\ u \in DOMAIN users
                => /\ users[u].ProfilePicChange = [str |-> "null"]
                        => req'[p].pc = "stamp"
                   /\ ( /\ "num" \in DOMAIN users[u].ProfilePicChange
                        /\ now < users[u].ProfilePicChange.num + profilePicCooldown )
                        => /\ req'[p].pc = "done"
                           /\ req'[p].status = 403
                           /\ users' = users
                           /\ objects' = objects
                           /\ articles' = articles
                   /\ ( /\ "num" \in DOMAIN users[u].ProfilePicChange
                        /\ now >= users[u].ProfilePicChange.num + profilePicCooldown )
                        => req'[p].pc = "stamp"
        /\ \A p \in Procs :
            req[p].op = "changeProfilePic" /\ req[p].pc = "stamp" /\ req'[p] # req[p]
                => users'[req[p].username].ProfilePicChange = [num |-> req[p].timestamp]
        /\ \A p \in Procs :
            req[p].op = "changeProfilePic" /\ Returns(p)
                => /\ req'[p].status = 200
                   /\ users'[req[p].username].ProfilePic = req[p].user.ProfilePic
                   /\ matchesStoredImage(req[p].user.ProfilePic) ]_vars

\* C11 happens: a picture was changed, and a second request within the
\* window was answered 403
C11_Witness ==
    \E p \in Procs :
        /\ Returned(p, "changeProfilePic")
        /\ req[p].status = 403
        /\ req[p].username \in DOMAIN users
        /\ matchesStoredImage(users[req[p].username].ProfilePic)
        /\ now < users[req[p].username].ProfilePicChange.num + profilePicCooldown

\* a changeProfilePic request for username u that is past the cooldown check
PastGate(p, u) ==
    /\ req[p].op = "changeProfilePic"
    /\ req[p].pc \in {"stamp", "remove", "save", "query", "articles", "link"}
    /\ req[p].username = u

\* the time a request past the cooldown check stamps, or has stamped
GateTime(p) ==
    IF req[p].pc = "stamp" THEN req[p].timestamp ELSE req[p].user.ProfilePicChange.num

\* C12: any two changeProfilePic requests for one user that are both past
\* the cooldown check are at least 7 days apart
C12_GateIsExclusive ==
    \A p, q \in Procs, u \in Usernames :
        p # q /\ PastGate(p, u) /\ PastGate(q, u)
            => \/ GateTime(p) - GateTime(q) >= profilePicCooldown
               \/ GateTime(q) - GateTime(p) >= profilePicCooldown

\* this step is changeProfilePic in slot p getting a failure from the
\* object store: the old image is not removed, or the new one is not stored
StoreFails(p) ==
    /\ req[p].op = "changeProfilePic"
    /\ req'[p] # req[p]
    /\ \/ req[p].pc = "remove" /\ objects' = objects
       \/ req[p].pc = "save" /\ req[p].imageId \notin objects'

\* C13: when removing the old image or storing the new one fails,
\* changeProfilePic returns 500 at that step, ProfilePicChange holds the
\* new stamp, and no user and no article is changed
C13_StoreFailureAborts ==
    [][ \A p \in Procs :
          StoreFails(p)
              => /\ req'[p].pc = "done"
                 /\ req'[p].status = 500
                 /\ users' = users
                 /\ users[req[p].username].ProfilePicChange = req[p].user.ProfilePicChange
                 /\ "num" \in DOMAIN req[p].user.ProfilePicChange
                 /\ articles' = articles ]_vars

\* the articles of the two tables whose author is username
ArticlesOf(username) ==
    UNION { queryArticles(tableName, username) : tableName \in Tables }

\* C14: requests served one at a time, when changeProfilePic has returned
\* 200 every article of the user, in ArticlesUnpublished and in
\* ArticlesPublished, has the ProfilePic stored for the user as its
\* AuthorProfilePic
C14_ArticlesFollowPicture ==
    \A p \in Procs :
        Returned(p, "changeProfilePic") /\ req[p].status = 200
            => /\ req[p].username \in DOMAIN users
               /\ users[req[p].username].ProfilePic = req[p].payload.user.ProfilePic
               /\ \A a \in ArticlesOf(req[p].username) :
                    articles[a].AuthorProfilePic = users[req[p].username].ProfilePic

\* C14 happens: changeProfilePic returned 200 for a user with an article
\* in each of the two tables
C14_Witness ==
    \E p \in Procs :
        /\ Returned(p, "changeProfilePic")
        /\ req[p].status = 200
        /\ \A tableName \in Tables : queryArticles(tableName, req[p].username) # {}
        /\ matchesStoredImage(users[req[p].username].ProfilePic)

\* the codes of the tokens in the store that username owns
TokensOf(username) == { c \in DOMAIN tokens : tokens[c].username = username }

\* C15: requests served one at a time, when deleteUserAccount has returned
\* 200 for a username there is no row of the username in Users, no token
\* of the username in the token store and no article of the username
C15_DeleteRemovesAll ==
    \A p \in Procs :
        Returned(p, "deleteUserAccount") /\ req[p].status = 200
            => /\ req[p].username \notin DOMAIN users
               /\ TokensOf(req[p].username) = {}
               /\ ArticlesOf(req[p].username) = {}

\* C15 happens: deleteUserAccount returned 200 for a user who was sent a
\* verification code, whose token was in the store, and who had changed the
\* picture
C15_Witness ==
    \E p \in Procs, m \in mails :
        /\ Returned(p, "deleteUserAccount")
        /\ req[p].status = 200
        /\ m.kind = "account_verification"
        /\ m.username = req[p].username
        /\ nextImage > 1

\* C16: deleteUserAccount with a password that does not match returns 403
\* at once and removes nothing: the Users table, the object store, the token
\* store and the articles are unchanged
C16_WrongPasswordRemovesNothing ==
    [][ \A p \in Procs, u \in Usernames, pw \in LoginPasswords :
          ( /\ deleteUserAccount(p, 1, Reliable, u, pw)
            /\ u \in DOMAIN users
            /\ ~compareHash(pw, users[u].Password) )
              => /\ req'[p].pc = "done"
                 /\ req'[p].status = 403
                 /\ users' = users
                 /\ objects' = objects
                 /\ tokens' = tokens
                 /\ articles' = articles ]_vars

\* C16 happens: deleteUserAccount answered 403 for a user who has a stored
\* picture, a token and an article
C16_Witness ==
    \E p \in Procs :
        /\ Returned(p, "deleteUserAccount")
        /\ req[p].status = 403
        /\ req[p].username \in DOMAIN users
        /\ matchesStoredImage(users[req[p].username].ProfilePic)
        /\ users[req[p].username].ProfilePic.name.uuid \in objects
        /\ TokensOf(req[p].username) # {}
        /\ ArticlesOf(req[p].username) # {}

\* this step is a step of deleteUserAccount in slot p from position pc
DeleteStep(p, pc) ==
    /\ req[p].op = "deleteUserAccount"
    /\ req[p].pc = pc
    /\ req'[p] # req[p]

\* C17: deleteUserAccount removes the stored picture, then the tokens of the
\* user, then the articles of the user, then the row of the user: each step
\* either succeeds and hands over to the next, or fails, changes nothing and
\* returns its failure; no step puts back what an earlier one removed; and
\* the row is removed only from the last step, with the picture, the tokens
\* and the articles removed
C17_DeleteIsForwardOnly ==
    [][ \A p \in Procs :
          /\ DeleteStep(p, "image")
                => /\ \/ /\ req[p].id \notin objects'
                         /\ req'[p].pc = "tokens"
                      \/ /\ objects' = objects
                         /\ req'[p].pc = "done"
                         /\ req'[p].status = 500
                   /\ UNCHANGED <<users, tokens, articles>>
          /\ DeleteStep(p, "tokens")
                => /\ \/ /\ TokensOf(req[p].username)' = {}
                         /\ req'[p].pc = "articles"
                      \/ /\ tokens' = tokens
                         /\ req'[p].pc = "done"
                         /\ req'[p].status = 500
                   /\ UNCHANGED <<users, objects, articles>>
          /\ DeleteStep(p, "articles")
                => /\ \/ /\ ArticlesOf(req[p].username)' = {}
                         /\ req'[p].pc = "user"
                      \/ /\ articles' = articles
                         /\ req'[p].pc = "done"
                         /\ req'[p].status # 200
                   /\ UNCHANGED <<users, objects, tokens>>
          /\ DeleteStep(p, "user")
                => /\ req'[p].pc = "done"
                   /\ req'[p].status = 200 <=> req[p].username \notin DOMAIN users'
                   /\ req'[p].status # 200 => users' = users
                   /\ TokensOf(req[p].username) = {}
                   /\ ArticlesOf(req[p].username) = {}
                   /\ \A i \in objects :
                        ~ /\ req[p].username \in DOMAIN users
                          /\ users[req[p].username].ProfilePic = ImageUrl(i)
                   /\ UNCHANGED <<objects, tokens, articles>>
          /\ req[p].op = "deleteUserAccount" /\ req[p].pc # "user"
                => users' = users ]_vars

\* C17 happens: deleteUserAccount returned 500 with the picture of the
\* user removed from the object store, and the tokens and the row of the user
\* still there
C17_Witness ==
    \E p \in Procs :
        /\ Returned(p, "deleteUserAccount")
        /\ req[p].status = 500
        /\ req[p].username \in DOMAIN users
        /\ matchesStoredImage(users[req[p].username].ProfilePic)
        /\ users[req[p].username].ProfilePic.name.uuid \notin objects
        /\ TokensOf(req[p].username) # {}

\* a requestEmailChange for username u that is past the cooldown check
\* and has not returned
ChangingEmail(p, u) ==
    /\ req[p].op = "requestEmailChange"
    /\ req[p].pc \in {"token", "stamp"}
    /\ req[p].username = u

\* C18: requestEmailChange for a user whose LastEmailChange is less than 3
\* hours back returns 429, and in every interleaving two requests for one
\* user that are both past the cooldown check are at least 3 hours apart
C18_EmailChangeIsRateLimited ==
    [][ /\ \A p \in Procs, u \in Usernames, pw \in LoginPasswords, em \in NewEmails :
            ( /\ requestEmailChange(p, MaxProcs, Reliable, u, pw, em)
              /\ u \in DOMAIN users
              /\ users[u].LastEmailChange + emailChangeCooldown > now )
                => req'[p].pc = "done" /\ req'[p].status = 429
        /\ \A p, q \in Procs, u \in Usernames :
            p # q /\ ChangingEmail(p, u)' /\ ChangingEmail(q, u)'
                => \/ req'[p].currentTime - req'[q].currentTime >= emailChangeCooldown
                   \/ req'[q].currentTime - req'[p].currentTime >= emailChangeCooldown ]_vars

\* the password of the row of username is one changePassword stored
PasswordChanged(u) ==
    /\ u \in DOMAIN users
    /\ users[u].Password.pw \in NewPasswords

\* each sendPasswordResetEmail that returns 200 has set LastPasswordChange to
\* the time it read, and each changePassword that returns 200 to the time of
\* its last step
StampsLastPasswordChange ==
    \A p \in Procs :
        /\ ( /\ req[p].op = "sendPasswordResetEmail"
             /\ Returns(p)
             /\ req'[p].status = 200 )
                => /\ users'[req[p].username].LastPasswordChange = req[p].currentTime
                   /\ req[p].currentTime <= now
        /\ ( /\ req[p].op = "changePassword"
             /\ Returns(p)
             /\ req'[p].status = 200 )
                => users'[req[p].username].LastPasswordChange = now

\* C19 as claimed: requests served one at a time, sendPasswordResetEmail
\* less than 15 minutes after the LastPasswordChange that a changePassword
\* or a sendPasswordResetEmail has set returns 429, and each successful
\* sendPasswordResetEmail sets LastPasswordChange
C19_ResetIsRateLimited ==
    [][ /\ \A p \in Procs, u \in Usernames :
            ( /\ sendPasswordResetEmail(p, 1, Reliable, u)
              /\ PasswordChanged(u)
              /\ users[u].LastPasswordChange + passwordResetCooldown > now )
                => req'[p].pc = "done" /\ req'[p].status = 429
        /\ StampsLastPasswordChange ]_vars

\* C19 as amended: the same for a user whose Verified is 'true'; for a user
\* who is not verified the request returns 403 whatever LastPasswordChange is
C19_ResetIsRateLimitedForVerified ==
    [][ /\ \A p \in Procs, u \in Usernames :
            ( /\ sendPasswordResetEmail(p, 1, Reliable, u)
              /\ u \in DOMAIN users
              /\ users[u].LastPasswordChange + passwordResetCooldown > now )
                => /\ req'[p].pc = "done"
                   /\ req'[p].status = IF users[u].Verified = "true" THEN 429 ELSE 403
        /\ StampsLastPasswordChange ]_vars

\* C19 happens: a verified user changed the password, and
\* sendPasswordResetEmail within 15 minutes of it answered 429
C19_Witness ==
    \E p \in Procs :
        /\ Returned(p, "sendPasswordResetEmail")
        /\ req[p].status = 429
        /\ PasswordChanged(req[p].username)
        /\ users[req[p].username].Verified = "true"
        /\ users[req[p].username].LastPasswordChange > 0
        /\ users[req[p].username].LastPasswordChange + passwordResetCooldown > now

\* this step changes nothing but the request in slot p, which returns status
Rejects(p, status) ==
    /\ req'[p].pc = "done"
    /\ req'[p].status = status
    /\ users' = users
    /\ tokens' = tokens
    /\ mails' = mails
    /\ nextCode' = nextCode

\* C20: sendPasswordResetEmail for a user whose Verified is not 'true'
\* returns 403 at once, and sendPasswordResetEmail for a verified user and
\* requestEmailChange within their cooldowns return 429 at once; each leaves
\* the Users table, the token store and the mails sent as they are
C20_RejectedResetChangesNothing ==
    [][ /\ \A p \in Procs, u \in Usernames :
            sendPasswordResetEmail(p, MaxProcs, Reliable, u) /\ u \in DOMAIN users
                => /\ users[u].Verified # "true" => Rejects(p, 403)
                   /\ ( /\ users[u].Verified = "true"
                        /\ users[u].LastPasswordChange + passwordResetCooldown > now )
                        => Rejects(p, 429)
        /\ \A p \in Procs, u \in Usernames, pw \in LoginPasswords, em \in NewEmails :
            ( /\ requestEmailChange(p, MaxProcs, Reliable, u, pw, em)
              /\ u \in DOMAIN users
              /\ users[u].LastEmailChange + emailChangeCooldown > now )
                => Rejects(p, 429) ]_vars

\* C20 happens: sendPasswordResetEmail answered 403 for a user who is not
\* verified, 15 minutes or more after LastPasswordChange
C20_Witness ==
    \E p \in Procs :
        /\ Returned(p, "sendPasswordResetEmail")
        /\ req[p].status = 403
        /\ req[p].username \in DOMAIN users
        /\ users[req[p].username].Verified = "false"
        /\ users[req[p].username].LastPasswordChange + passwordResetCooldown <= now
        /\ \A c \in DOMAIN tokens : tokens[c].type # "password_reset"

\* C21: the access token requestEmailChange returns with 200 carries the
\* row as it is stored when the handler returns: its LastEmailChange is the
\* value just written, and each other field of its payload is the field of
\* the stored row
C21_TokenReflectsRow ==
    \A p \in Procs :
        ( /\ Returned(p, "requestEmailChange")
          /\ req[p].status = 200
          /\ req[p].username \in DOMAIN users )
            => LET claims == req[p].payload.accessToken.payload
                   row == users[req[p].username]
               IN /\ "LastEmailChange" \in DOMAIN claims
                  /\ \A f \in DOMAIN claims : f \in DOMAIN row /\ claims[f] = row[f]

\* C22: in changePassword, when the update of Password fails
\* LastPasswordChange is left as it is, and when the update of
\* LastPasswordChange fails the stored Password is still the hash of the old
\* password; either way the handler returns the status of the update that
\* failed
C22_NeitherUpdateAlone ==
    [][ \A p \in Procs :
          /\ ( changePasswordPassword(p, Unreliable) /\ Returns(p) )
                => /\ req'[p].status = 500
                   /\ users' = users
          /\ ( changePasswordStamp(p, Unreliable) /\ req'[p].status # 200 )
                => /\ req'[p].status = 500
                   /\ compareHash(req[p].oldPassword, users'[req[p].username].Password) ]_vars

\* the statuses of a structured result; a handler that lets an exception
\* out returns none of them
Statuses == {200, 400, 401, 403, 404, 410, 429, 500}

\* C23: no operation throws past its own boundary: whatever call on the
\* table, the token store, the object store, the mail sender or the article
\* tables fails, the handler returns a result with a status
C23_NoThrowPastBoundary ==
    \A p \in Procs :
        req[p].pc = "done" => req[p].status \in Statuses

\* C24: verifyUser fails in one way: for a username with no row and for a
\* row whose password is another one it returns the same result, status 401
\* with the same message and no token, and changes nothing
C24_LoginFailsUniformly ==
    [][ \A p \in Procs, u \in Usernames, pw \in LoginPasswords :
          ( /\ verifyUser(p, 1, Reliable, u, pw)
            /\ \/ u \notin DOMAIN users
               \/ /\ u \in DOMAIN users
                  /\ "Password" \in DOMAIN users[u]
                  /\ ~compareHash(pw, users[u].Password) )
            => /\ req'[p] = Response("verifyUser", 401, "invalid login credentials",
                                     u, 0, NoPayload)
               /\ UNCHANGED <<users, tokens, mails, objects, articles>> ]_vars

\* C24 happens: verifyUser answered 401 for a user who is registered
C24_Witness ==
    \E p \in Procs :
        /\ Returned(p, "verifyUser")
        /\ req[p].status = 401
        /\ req[p].username \in DOMAIN users

\* the cookie is an access token in its lifetime whose claims say the user
\* is not verified
UnverifiedSession(cookie) ==
    /\ cookie # Null
    /\ cookie.kind = "access"
    /\ now < cookie.exp
    /\ cookie.payload.Verified = "false"

\* C25: verifyUser does not look at Verified: for a registered user and the
\* right password it returns 200 with an access token and a refresh token
\* whose claims hold the Verified of the row, 'false' or 'true'; a request
\* with the token of a user who is not verified is turned away by
\* authenticateToken when it requires a verified user, and by no other gate
C25_LoginIgnoresVerified ==
    [][ /\ \A p \in Procs, u \in Usernames, pw \in LoginPasswords :
            ( /\ verifyUser(p, MaxProcs, Reliable, u, pw)
              /\ u \in DOMAIN users
              /\ compareHash(pw, users[u].Password) )
                => /\ req'[p].status = 200
                   /\ {"accessToken", "refreshToken"} \subseteq DOMAIN req'[p].payload
                   /\ req'[p].payload.accessToken.payload.Verified = users[u].Verified
                   /\ req'[p].payload.refreshToken.payload.Verified = users[u].Verified
        /\ \A p \in Procs, requireVerified \in BOOLEAN :
            ( /\ authenticateToken(p, MaxProcs, requireVerified)
              /\ UnverifiedSession(cookieOf(p)) )
                => req'[p].result.next = ~requireVerified
        /\ \A p \in Procs :
            ( /\ authTokenOptional(p, MaxProcs)
              /\ UnverifiedSession(cookieOf(p)) )
                => req'[p].result.next ]_vars

\* C25 happens: a user who is not verified logged in, and the request with
\* the access token was turned away with 403 by the gate requiring a
\* verified user
C25_Witness ==
    \E p \in Procs :
        /\ Returned(p, "authenticateToken")
        /\ req[p].requireVerified
        /\ UnverifiedSession(req[p].cookie)
        /\ req[p].result = Rejected(403, "account not verified")

\* the cookie carries the signature of the access tokens
Signed(cookie) == cookie.kind = "access"

\* C26: authenticateToken decides a request in this order: no cookie, 400;
\* a signed token at or past its expiration, 401; a token that is not one
\* the access secret signed, 403; a good token of a user who is not verified
\* when a verified user is required, 403; otherwise it passes the request on
\* with the decoded claims.  It either answers or passes the request on,
\* never both
C26_GateDecides ==
    [][ \A p \in Procs, requireVerified \in BOOLEAN :
          authenticateToken(p, MaxProcs, requireVerified)
            => LET cookie == cookieOf(p)
                   result == req'[p].result
                   turnedAway(status) ==
                       /\ ~result.next
                       /\ result.status = status
                       /\ "user" \notin DOMAIN result
               IN IF cookie = Null THEN turnedAway(400)
                  ELSE IF Signed(cookie) /\ now >= cookie.exp THEN turnedAway(401)
                  ELSE IF ~Signed(cookie) THEN turnedAway(403)
                  ELSE IF requireVerified /\ cookie.payload.Verified = "false"
                  THEN turnedAway(403)
                  ELSE /\ result.next
                       /\ "status" \notin DOMAIN result
                       /\ result.user = decodeJWT(cookie) ]_vars

\* C26 happens: a request with an access token at its expiration was
\* answered 401
C26_Witness ==
    \E p \in Procs :
        /\ Returned(p, "authenticateToken")
        /\ req[p].cookie # Null
        /\ Signed(req[p].cookie)
        /\ now >= req[p].cookie.exp
        /\ req[p].result = Rejected(401, "token expired")

\* authTokenOptional decides a request with a cookie as authenticateToken
\* does when no verified user is required
OptionalIsRequiredUnverified ==
    [][ \A p \in Procs :
          ( authTokenOptional(p, MaxProcs) /\ cookieOf(p) # Null )
            => req'[p].result = authenticateTokenResult(cookieOf(p), FALSE) ]_vars

\* C27: authTokenOptional passes a request without a cookie on with an empty
\* identity, and decides a request with a cookie as authenticateToken does,
\* whether a verified user is required or not
C27_OptionalIsRequired ==
    [][ \A p \in Procs :
          authTokenOptional(p, MaxProcs)
            => IF cookieOf(p) = Null
               THEN req'[p].result = Passed(<<>>)
               ELSE \A requireVerified \in BOOLEAN :
                      req'[p].result = authenticateTokenResult(cookieOf(p), requireVerified) ]_vars

\* C28: resetPassword given an unexpired password_reset token writes the
\* hash of a generated password over the Password of the owner: from then on
\* the previous password does not compare with the stored hash and verifyUser
\* with it answers 401, and the generated password compares.  The token is
\* deleted only once the update has succeeded; when the update fails the
\* handler answers 500 and the row and the token are as they were
C28_ResetReplacesPassword ==
    [][ /\ \A p \in Procs :
            resetPasswordUpdate(p, Unreliable)
                => LET u == req[p].username
                   IN \/ /\ req'[p].pc = "delete"
                         /\ compareHash(req[p].newPassword, users'[u].Password)
                         /\ users[u].Password.pw # req[p].newPassword
                                => ~compareHash(users[u].Password.pw, users'[u].Password)
                         /\ tokens' = tokens
                      \/ /\ Returns(p)
                         /\ req'[p].status = 500
                         /\ users' = users
                         /\ tokens' = tokens
                         /\ req[p].code \in DOMAIN tokens'
        /\ \A p \in Procs :
            resetPasswordDelete(p, Unreliable)
                => /\ compareHash(req[p].newPassword, users[req[p].username].Password)
                   /\ users' = users
                   /\ req'[p].status = 200 => req[p].code \notin DOMAIN tokens'
        /\ \A p \in Procs, u \in Usernames, pw \in LoginPasswords :
            ( /\ verifyUser(p, 1, Reliable, u, pw)
              /\ u \in DOMAIN users
              /\ \E suffix \in ResetSuffixes : compareHash(u \o suffix, users[u].Password) )
                => req'[p].status = 401 ]_vars

\* C28 happens: resetPassword answered 200, its token is gone, the mail with
\* the generated password was sent and the stored hash is that of the
\* generated password
C28_Witness ==
    \E p \in Procs, m \in mails :
        /\ Returned(p, "resetPassword")
        /\ req[p].status = 200
        /\ req[p].code \notin DOMAIN tokens
        /\ m.kind = "new_password"
        /\ m.username = req[p].username
        /\ compareHash(m.password, users[req[p].username].Password)
        /\ ~compareHash(Pw1, users[req[p].username].Password)

\* the fields of a row that are not in the allow-list of updateUser
KeyFields == {"Username", "AccountCreated"}

\* updateUser called with a field that is not allowed answers 400 and
\* leaves the table as it is, whether the table would fail or not
DisallowedIsRefused ==
    \A username \in Usernames, fieldName \in KeyFields, ok \in BOOLEAN :
        /\ updateUserStatus(ok, username, fieldName) = 400
        /\ updateUserTable(ok, username, fieldName, now) = users

\* no step changes the Username or the AccountCreated of a row
KeyFieldsKept ==
    \A username \in DOMAIN users \cap DOMAIN users', fieldName \in KeyFields :
        /\ fieldName \in DOMAIN users[username] <=> fieldName \in DOMAIN users'[username]
        /\ fieldName \in DOMAIN users[username]
                => users'[username][fieldName] = users[username][fieldName]

\* C29: updateUser writes allow-listed fields only: called with Username or
\* AccountCreated it answers 400 and writes nothing; and whatever the
\* operations, the Username and the AccountCreated of a row never change
\* once createUser has written it
C29_KeyFieldsNeverChange == [][DisallowedIsRefused /\ KeyFieldsKept]_vars

\* updateUser in slot p has its write still to come
Updating(p, username) ==
    /\ req[p].op = "updateUser"
    /\ req[p].pc = "send"
    /\ req[p].username = username

\* C30: of two updateUser requests in flight on one row, each write sets its
\* field to its value and leaves every other field of the row as it is,
\* whatever the order of the writes: with two fields the row ends with both
\* values, with one field it holds the value of the write applied last
C30_UpdatesDoNotConflict ==
    [][ \A p \in Procs :
          ( updateUserSend(p, Reliable) /\ req'[p].status = 200 )
            => LET username == req[p].username
                   fieldName == req[p].fieldName
               IN /\ DOMAIN users' = DOMAIN users
                  /\ \A other \in DOMAIN users \ {username} : users'[other] = users[other]
                  /\ DOMAIN users'[username] = DOMAIN users[username] \cup {fieldName}
                  /\ users'[username][fieldName] = req[p].fieldValue
                  /\ \A f \in DOMAIN users[username] \ {fieldName} :
                        users'[username][f] = users[username][f]
                  /\ \A q \in Procs \ {p} : req'[q] = req[q] ]_vars

\* C30 happens: two updateUser requests on one row were in flight together;
\* the write of one has been applied and is in the row, that of the other,
\* on another field, is still to come
C30_Witness ==
    \E p \in Procs, q \in Procs :
        /\ Returned(p, "updateUser")
        /\ req[p].status = 200
        /\ Updating(q, req[p].username)
        /\ req[q].fieldName # req[p].payload.fieldName
        /\ users[req[p].username][req[p].payload.fieldName] = req[p].payload.fieldValue

\* C31: updateUser called for a username that has no row answers 404 and
\* leaves the table without a row for that username
C31_UpdateOfAbsentWritesNothing ==
    [][ \A p \in Procs :
          ( updateUserSend(p, Reliable) /\ req[p].username \notin DOMAIN users )
            => /\ req'[p].status = 404
               /\ req[p].username \notin DOMAIN users' ]_vars

\* C32: every token in the token store is owned by a username that has a
\* row in Users, in every state and whatever the interleaving of
\* deleteUserAccount with a createUser, a requestEmailChange or a
\* sendPasswordResetEmail in flight for the username
C32_NoTokenWithoutOwner ==
    \A c \in DOMAIN tokens : tokens[c].username \in DOMAIN users

\* no request is being served
Quiet == \A p \in Procs : req[p] = Idle

\* C33: whenever no request is being served, every user whose Verified is
\* 'false' owns an email_verification token in the token store, so that
\* verifyEmail can still verify the user
C33_UnverifiedCanVerify ==
    Quiet =>
        \A username \in DOMAIN users :
            ( "Verified" \in DOMAIN users[username] /\ users[username].Verified = "false" )
                => \E c \in DOMAIN tokens :
                        /\ tokens[c].username = username
                        /\ tokens[c].type = "email_verification"

\* C34: whenever no request is being served, the ProfilePic of every user is
\* the default picture or names an image that is in the object store
C34_PictureIsStored ==
    Quiet =>
        \A username \in DOMAIN users :
            "ProfilePic" \in DOMAIN users[username]
                => \/ users[username].ProfilePic = DefaultProfilePic
                   \/ /\ matchesStoredImage(users[username].ProfilePic)
                      /\ users[username].ProfilePic.name.uuid \in objects

\* the instants of the clock for pending requests: account creation, the end
\* of the e-mail change cooldown counted from it, and the end of the cooldown
\* of a request made then, both within the lifetime of a token made at the
\* first, and an instant after that lifetime
PendingInstants ==
    { 0,
      emailChangeCooldown,
      emailChangeCooldown + emailChangeCooldown,
      emailChangeCooldown + tokenLifetime + 1 }

\* Registration and the credential handlers, requests served one after the
\* other, over the instants at which a second request is let through
NextPending ==
    \/ Tick(PendingInstants)
    \/ \E p \in Procs :
        \/ Deliver(p)
        \/ Registration(p, 1, Reliable)
        \/ Credentials(p, 1, Reliable)

SpecPending == Init /\ [][NextPending]_vars

\* the tokens of a type a user owns that the clock has not passed
Unexpired(username, type) ==
    { c \in DOMAIN tokens : /\ tokens[c].username = username
                            /\ tokens[c].type = type
                            /\ ~Expired(c) }

\* C35: a user owns at most one unexpired email_change token and at most one
\* unexpired password_reset token at any time
C35_OnePendingPerType ==
    \A username \in Usernames :
        \A type \in {"email_change", "password_reset"} :
            Cardinality(Unexpired(username, type)) <= 1

\* no email_change token is applied while a newer one is in the store
OlderNeverApplied ==
    \A p \in Procs :
        ( /\ Returned(p, "verifyEmailChange")
          /\ req[p].status = 200 )
            => ~ \E c \in DOMAIN tokens : /\ tokens[c].type = "email_change"
                                          /\ c > req[p].code

====
